---- MODULE Spec2Model ----
(***************************************************************************)
(* Model of the marketplace MCP server: the marketplace.Client request     *)
(* translation (SearchPackages, GetRepositories, GetPackageMetadata,       *)
(* GetPackageAssets) and the tool handlers that call it.                   *)
(*                                                                         *)
(* Strings the program converts are sequences of tokens.  A token is       *)
(* either a single character ("&", " ", "7") or a run of characters        *)
(* ("query", "aws", "api.") that no conversion of the program looks        *)
(* inside.                                                                 *)
(***************************************************************************)
EXTENDS Integers, Sequences, FiniteSets, TLC

VARIABLES BaseURL, Token, call, wire, result, env, files, configPath, flight, reload

vars == <<BaseURL, Token, call, wire, result, env, files, configPath, flight, reload>>

\* The process environment and the auth.Manager built from it.
hostVars == <<env, files, configPath>>
\* The goroutines of the HTTP transport: a tool call and a reload under way.
raceVars == <<flight, reload>>

\* ---------------------------------------------------------------- bounds
MaxSize == 1
MaxPage == 1
MaxHops == 2
\* The setter calls made on one client.
MaxSetterCalls == 3
MaxLines == 2
MaxForwards == 3
MaxResp == 3
BufUnits == 2

\* ------------------------------------------------------ program constants
DefaultSize == 20
DefaultPage == 0
StatusOK == 200
StatusTemporaryRedirect == 307
StatusUnauthorized == 401
StatusForbidden == 403
StatusInternalServerError == 500

userAgent == <<"marketplace-mcp-server/1.0">>

\* ------------------------------------------------- net/url query encoding
\* The characters url.QueryEscape rewrites, with their two hex digits.
Hex ==
  [c \in {"&", "=", "'", "%", "+", "?", "#", "/"} |->
     CASE c = "&" -> <<"2", "6">>
       [] c = "=" -> <<"3", "D">>
       [] c = "'" -> <<"2", "7">>
       [] c = "%" -> <<"2", "5">>
       [] c = "+" -> <<"2", "B">>
       [] c = "?" -> <<"3", "F">>
       [] c = "#" -> <<"2", "3">>
       [] c = "/" -> <<"2", "F">>]

EscapeChar(c) ==
  IF c = " " THEN <<"+">>
  ELSE IF c \in DOMAIN Hex THEN <<"%">> \o Hex[c]
  ELSE <<c>>

\* A writer that puts the values into the query as they are.
QueryEscapeVerbatim(s) == s

RECURSIVE QueryEscape(_)
QueryEscape(s) ==
  IF s = <<>> THEN <<>> ELSE EscapeChar(Head(s)) \o QueryEscape(Tail(s))

RECURSIVE QueryUnescape(_)
QueryUnescape(s) ==
  IF s = <<>> THEN <<>>
  ELSE IF Head(s) = "+" THEN <<" ">> \o QueryUnescape(Tail(s))
  ELSE IF Head(s) = "%"
    THEN IF Len(s) >= 3 /\ \E c \in DOMAIN Hex : Hex[c] = <<s[2], s[3]>>
           THEN <<CHOOSE c \in DOMAIN Hex : Hex[c] = <<s[2], s[3]>> >>
                  \o QueryUnescape(SubSeq(s, 4, Len(s)))
           ELSE <<"<invalid escape>">>
  ELSE <<Head(s)>> \o QueryUnescape(Tail(s))

\* url.Values: a map from parameter name to its value.
EmptyValues == [k \in {} |-> <<>>]

Set(q, k, v) == [x \in (DOMAIN q) \cup {k} |-> IF x = k THEN v ELSE q[x]]

\* Values.Encode sorts the keys; this is the byte order of the keys in use.
KeyOrder ==
  <<"accountName", "family", "filter", "packageType", "page", "public",
    "query", "redirect", "size", "starred", "tier", "type">>

RECURSIVE EncodeFrom(_, _)
EncodeFrom(q, i) ==
  IF i > Len(KeyOrder) THEN <<>>
  ELSE LET k == KeyOrder[i]
           rest == EncodeFrom(q, i + 1)
       IN IF k \in DOMAIN q
            THEN <<k, "=">> \o QueryEscape(q[k])
                   \o (IF rest = <<>> THEN <<>> ELSE <<"&">> \o rest)
            ELSE rest

Encode(q) == EncodeFrom(q, 1)

IndexOf(s, c) ==
  IF \E i \in 1..Len(s) : s[i] = c
    THEN CHOOSE i \in 1..Len(s) : s[i] = c /\ \A j \in 1..(i - 1) : s[j] # c
    ELSE 0

\* The key=value pairs of a raw query, in order, unescaped (url.ParseQuery
\* before it groups the values by key).
RECURSIVE QueryPairs(_)
QueryPairs(raw) ==
  IF raw = <<>> THEN <<>>
  ELSE LET i == IndexOf(raw, "&")
           pair == IF i = 0 THEN raw ELSE SubSeq(raw, 1, i - 1)
           rest == IF i = 0 THEN <<>> ELSE SubSeq(raw, i + 1, Len(raw))
           j == IndexOf(pair, "=")
           kraw == IF j = 0 THEN pair ELSE SubSeq(pair, 1, j - 1)
           vraw == IF j = 0 THEN <<>> ELSE SubSeq(pair, j + 1, Len(pair))
           key == QueryUnescape(kraw)
           k == IF Len(key) = 1 THEN key[1] ELSE "<malformed key>"
       IN IF pair = <<>> THEN QueryPairs(rest)
          ELSE <<[k |-> k, v |-> QueryUnescape(vraw)]>> \o QueryPairs(rest)

\* url.ParseQuery as URL.Query() applies it to a raw query; Get returns the
\* first value of a key.
ParseQuery(raw) ==
  LET pairs == QueryPairs(raw)
      First(k) == CHOOSE i \in 1..Len(pairs) :
                    pairs[i].k = k /\ \A j \in 1..(i - 1) : pairs[j].k # k
  IN [k \in { pairs[i].k : i \in 1..Len(pairs) } |-> pairs[First(k)].v]

\* ----------------------------------------------------------- fmt.Sprintf
Digits == <<"0", "1", "2", "3", "4", "5", "6", "7", "8", "9">>

RECURSIVE Itoa(_)
Itoa(n) ==
  IF n < 0 THEN <<"-">> \o Itoa(0 - n)
  ELSE IF n < 10 THEN <<Digits[n + 1]>>
  ELSE Itoa(n \div 10) \o <<Digits[(n % 10) + 1]>>

RECURSIVE Atoi(_)
Atoi(s) ==
  IF s = <<>> THEN 0
  ELSE (CHOOSE d \in 0..9 : Digits[d + 1] = s[Len(s)])
         + 10 * Atoi(SubSeq(s, 1, Len(s) - 1))

FormatBool(b) == IF b THEN <<"true">> ELSE <<"false">>

\* fmt.Sprintf("<field> = '%s'", value)
FilterClause(field, value) == <<field, " ", "=", " ", "'">> \o value \o <<"'">>

\* ------------------------------------------------------------- net/http
\* x is computed once and handed to F.
With(x, F(_)) == F(x)

NoBody == [json |-> "none", val |-> <<>>]

\* What one server on the way answers: a status, a Location header (<<>> when
\* the header is absent) and a body; neterr marks a transport failure.
Response(status, location, body) ==
  [status |-> status, location |-> location, body |-> body, neterr |-> FALSE]

NetErr == [status |-> 0, location |-> <<>>, body |-> NoBody, neterr |-> TRUE]

\* http.NewRequestWithContext, the User-Agent header and the SID cookie.
\* A request that carries the token as a bearer header.
NewRequestBearer(path, rawQuery) ==
  [method |-> "GET", base |-> BaseURL, path |-> path, rawQuery |-> rawQuery,
   userAgent |-> userAgent, cookies |-> [n \in {} |-> ""],
   authorization |-> IF Token # "" THEN "Bearer" ELSE ""]

NewRequest(path, rawQuery) ==
  [method |-> "GET", base |-> BaseURL, path |-> path, rawQuery |-> rawQuery,
   userAgent |-> userAgent,
   cookies |-> IF Token # "" THEN [n \in {"SID"} |-> Token]
                             ELSE [n \in {} |-> ""],
   authorization |-> ""]

\* The request http.Client issues for a redirect: the Location, no query of
\* the original request, no cookie of the original host.
RedirectRequest(req, location) ==
  [method |-> req.method, base |-> location, path |-> <<>>, rawQuery |-> <<>>,
   userAgent |-> req.userAgent, cookies |-> [n \in {} |-> ""],
   authorization |-> ""]

\* redirectBehavior of net/http for a GET without body.
ShouldRedirect(resp) ==
  /\ ~resp.neterr
  /\ resp.status \in {301, 302, 303, 307, 308}
  /\ resp.location # <<>>

RECURSIVE FollowFrom(_, _, _, _)
FollowFrom(req, chain, i, sent) ==
  IF ShouldRedirect(chain[i]) /\ i < Len(chain)
    THEN FollowFrom(req, chain, i + 1,
                    Append(sent, RedirectRequest(req, chain[i].location)))
    ELSE [sent |-> sent, resp |-> chain[i]]

\* A transport that sends the request once more after a transport error.
DoRetrying(req, chain) ==
  IF req.base = <<>> THEN [sent |-> <<>>, resp |-> NetErr]
  ELSE LET d == FollowFrom(req, chain, 1, <<req>>)
       IN IF d.resp.neterr THEN [d EXCEPT !.sent = Append(@, req)] ELSE d

\* c.HTTPClient.Do with the client NewClient builds: a Timeout and no
\* CheckRedirect, so the default policy follows redirects.  chain lists what
\* the servers on the way answer, hop by hop.
Do(req, chain) ==
  IF req.base = <<>> THEN [sent |-> <<>>, resp |-> NetErr]
  ELSE FollowFrom(req, chain, 1, <<req>>)

\* ------------------------------------------------------------- errors
NoErr == [kind |-> "none", status |-> 0, text |-> NoBody]
ExecuteErr == [kind |-> "failed to execute request", status |-> 0, text |-> NoBody]
DecodeErr == [kind |-> "failed to decode response", status |-> 0, text |-> NoBody]
AuthRequiredErr ==
  [kind |-> "authentication required for this endpoint", status |-> 0,
   text |-> NoBody]
StatusErr(resp) ==
  [kind |-> "API request failed with status", status |-> resp.status,
   text |-> resp.body]

\* What a client call leaves behind: the request it built, the requests that
\* went out, the returned value (<<>> is nil), the returned error and
\* whether the response body was read.
Outcome(req, d, val, err, bodyRead) ==
  [req |-> req, sent |-> d.sent, val |-> val, err |-> err, bodyRead |-> bodyRead]

\* json decoding of a body into a struct: an object fills it, null leaves
\* the zero value, anything else is an error.
DecodesAsObject(body) == body.json \in {"object", "null"}
ObjectOf(body, zero) == IF body.json = "object" THEN body.val ELSE zero

\* ------------------------------------------------- Client.SearchPackages
SearchEndpoint(params) == IF params.UseV1 THEN <<"/v1/search">> ELSE <<"/v2/search">>

\* A translator that conjoins the v2 clauses with AND.
SetFilterFieldConjoined(q, useV1, name, value) ==
  IF value # <<>>
    THEN IF useV1 THEN Set(q, name, value)
         ELSE IF "filter" \in DOMAIN q
           THEN Set(q, "filter",
                    q["filter"] \o <<" ", "AND", " ">> \o FilterClause(name, value))
           ELSE Set(q, "filter", FilterClause(name, value))
    ELSE q

\* One filter field: its own parameter in v1, the single `filter` parameter,
\* overwritten, in v2.
SetFilterField(q, useV1, name, value) ==
  IF value # <<>>
    THEN IF useV1 THEN Set(q, name, value)
         ELSE Set(q, "filter", FilterClause(name, value))
    ELSE q

\* A translator that folds the type into the v2 filter like the other fields.
SearchValuesTypeFiltered(params) ==
  LET q0 == EmptyValues
      q1 == SetFilterField(q0, params.UseV1, "query", params.Query)
      q2 == SetFilterField(q1, params.UseV1, "family", params.Family)
      q3 == SetFilterField(q2, params.UseV1, "packageType", params.PackageType)
      q4 == SetFilterField(q3, params.UseV1, "accountName", params.AccountName)
      q5 == IF params.Size > 0 THEN Set(q4, "size", Itoa(params.Size)) ELSE q4
      q6 == IF params.Page > 0 THEN Set(q5, "page", Itoa(params.Page)) ELSE q5
      q7 == IF params.Public # <<>>
              THEN Set(q6, "public", FormatBool(params.Public[1])) ELSE q6
      q8 == SetFilterField(q7, params.UseV1, "tier", params.Tier)
      q9 == IF params.Starred # <<>> /\ params.Starred[1]
              THEN Set(q8, "starred", <<"true">>) ELSE q8
      q10 == SetFilterField(q9, params.UseV1, "type", params.Type)
  IN q10

SearchValues(params) ==
  LET q0 == EmptyValues
      q1 == SetFilterField(q0, params.UseV1, "query", params.Query)
      q2 == SetFilterField(q1, params.UseV1, "family", params.Family)
      q3 == SetFilterField(q2, params.UseV1, "packageType", params.PackageType)
      q4 == SetFilterField(q3, params.UseV1, "accountName", params.AccountName)
      q5 == IF params.Size > 0 THEN Set(q4, "size", Itoa(params.Size)) ELSE q4
      q6 == IF params.Page > 0 THEN Set(q5, "page", Itoa(params.Page)) ELSE q5
      q7 == IF params.Public # <<>>
              THEN Set(q6, "public", FormatBool(params.Public[1])) ELSE q6
      q8 == SetFilterField(q7, params.UseV1, "tier", params.Tier)
      q9 == IF params.Starred # <<>> /\ params.Starred[1]
              THEN Set(q8, "starred", <<"true">>) ELSE q8
      q10 == IF params.Type # <<>> THEN Set(q9, "type", params.Type) ELSE q9
  IN q10

ZeroSearchResponse == [Packages |-> <<>>, Total |-> 0]

SearchPackages(params, chain) ==
  With(NewRequest(SearchEndpoint(params), Encode(SearchValues(params))),
    LAMBDA req : With(Do(req, chain), LAMBDA d :
     IF d.resp.neterr THEN Outcome(req, d, <<>>, ExecuteErr, FALSE)
     ELSE IF d.resp.status # StatusOK
       THEN Outcome(req, d, <<>>, StatusErr(d.resp), TRUE)
     ELSE IF ~DecodesAsObject(d.resp.body)
       THEN Outcome(req, d, <<>>, DecodeErr, TRUE)
     ELSE Outcome(req, d, <<ObjectOf(d.resp.body, ZeroSearchResponse)>>, NoErr, TRUE)))

\* -------------------------------------------------- Client.GetRepositories
\* A path selection that also looks at the filter.
RepositoriesEndpointByFilter(account, params) ==
  IF params.UseV1 /\ params.Filter = <<>> THEN <<"/v1/repositories/">> \o account
  ELSE <<"/v2/repositories/">> \o account

RepositoriesEndpoint(account, params) ==
  IF params.UseV1 THEN <<"/v1/repositories/">> \o account
  ELSE <<"/v2/repositories/">> \o account

\* A translator that passes the filter on under both API versions.
RepositoriesValuesAnyVersion(params) ==
  LET q0 == EmptyValues
      q1 == IF params.Size > 0 THEN Set(q0, "size", Itoa(params.Size)) ELSE q0
      q2 == IF params.Page > 0 THEN Set(q1, "page", Itoa(params.Page)) ELSE q1
      q3 == IF params.Filter # <<>> THEN Set(q2, "filter", params.Filter) ELSE q2
  IN q3

\* A translator that also writes page 0.
RepositoriesValuesPageZero(params) ==
  LET q0 == EmptyValues
      q1 == IF params.Size > 0 THEN Set(q0, "size", Itoa(params.Size)) ELSE q0
      q2 == IF params.Page >= 0 THEN Set(q1, "page", Itoa(params.Page)) ELSE q1
      q3 == IF params.Filter # <<>> /\ ~params.UseV1
              THEN Set(q2, "filter", params.Filter) ELSE q2
  IN q3

RepositoriesValues(params) ==
  LET q0 == EmptyValues
      q1 == IF params.Size > 0 THEN Set(q0, "size", Itoa(params.Size)) ELSE q0
      q2 == IF params.Page > 0 THEN Set(q1, "page", Itoa(params.Page)) ELSE q1
      q3 == IF params.Filter # <<>> /\ ~params.UseV1
              THEN Set(q2, "filter", params.Filter) ELSE q2
  IN q3

ZeroRepositoryResponse == [Repositories |-> <<>>, Count |-> 0]

\* A loop that writes the requested account into every entry.
FillAccountsOverwriting(repoResp, account) ==
  [repoResp EXCEPT !.Repositories =
     [i \in DOMAIN repoResp.Repositories |->
        [repoResp.Repositories[i] EXCEPT !.Account = account]]]

\* The loop that fills in the account of the entries that carry none.
FillAccounts(repoResp, account) ==
  [repoResp EXCEPT !.Repositories =
     [i \in DOMAIN repoResp.Repositories |->
        IF repoResp.Repositories[i].Account = <<>>
          THEN [repoResp.Repositories[i] EXCEPT !.Account = account]
          ELSE repoResp.Repositories[i]]]

\* A client that looks at 401 and 403 only after the generic status check.
GetRepositoriesStatusFirst(account, params, chain) ==
  With(NewRequest(RepositoriesEndpoint(account, params),
                        Encode(RepositoriesValues(params))),
    LAMBDA req : With(Do(req, chain), LAMBDA d :
     IF d.resp.neterr THEN Outcome(req, d, <<>>, ExecuteErr, FALSE)
     ELSE IF d.resp.status # StatusOK
       THEN Outcome(req, d, <<>>, StatusErr(d.resp), TRUE)
     ELSE IF d.resp.status \in {StatusUnauthorized, StatusForbidden}
       THEN Outcome(req, d, <<>>, AuthRequiredErr, FALSE)
     ELSE IF ~DecodesAsObject(d.resp.body)
       THEN Outcome(req, d, <<>>, DecodeErr, TRUE)
     ELSE Outcome(req, d,
                  <<FillAccounts(ObjectOf(d.resp.body, ZeroRepositoryResponse),
                                 account)>>,
                  NoErr, TRUE)))

GetRepositories(account, params, chain) ==
  With(NewRequest(RepositoriesEndpoint(account, params),
                        Encode(RepositoriesValues(params))),
    LAMBDA req : With(Do(req, chain), LAMBDA d :
     IF d.resp.neterr THEN Outcome(req, d, <<>>, ExecuteErr, FALSE)
     ELSE IF d.resp.status \in {StatusUnauthorized, StatusForbidden}
       THEN Outcome(req, d, <<>>, AuthRequiredErr, FALSE)
     ELSE IF d.resp.status # StatusOK
       THEN Outcome(req, d, <<>>, StatusErr(d.resp), TRUE)
     ELSE IF ~DecodesAsObject(d.resp.body)
       THEN Outcome(req, d, <<>>, DecodeErr, TRUE)
     ELSE Outcome(req, d,
                  <<FillAccounts(ObjectOf(d.resp.body, ZeroRepositoryResponse),
                                 account)>>,
                  NoErr, TRUE)))

\* ----------------------------------------------- Client.GetPackageMetadata
MetadataEndpoint(account, repo, version, useV1) ==
  LET e0 == <<"/v2/packageMetadata/">> \o account \o <<"/">> \o repo
      e1 == IF version # <<>>
              THEN <<"/v1/packageMetadata/">> \o account \o <<"/">> \o repo
                     \o <<"/">> \o version
              ELSE e0
      useV1b == IF version # <<>> THEN TRUE ELSE useV1
      e2 == IF useV1b /\ version = <<>>
              THEN <<"/v1/packageMetadata/">> \o account \o <<"/">> \o repo
              ELSE e1
  IN e2

ZeroPackageMetadata == [Name |-> <<>>]

\* A client that takes every 2xx status for success.
GetPackageMetadataAny2xx(account, repo, version, useV1, chain) ==
  With(NewRequest(MetadataEndpoint(account, repo, version, useV1), <<>>),
    LAMBDA req : With(Do(req, chain), LAMBDA d :
     IF d.resp.neterr THEN Outcome(req, d, <<>>, ExecuteErr, FALSE)
     ELSE IF d.resp.status \notin 200..299
       THEN Outcome(req, d, <<>>, StatusErr(d.resp), TRUE)
     ELSE IF ~DecodesAsObject(d.resp.body)
       THEN Outcome(req, d, <<ZeroPackageMetadata>>, NoErr, TRUE)
     ELSE Outcome(req, d, <<ObjectOf(d.resp.body, ZeroPackageMetadata)>>, NoErr, TRUE)))

GetPackageMetadata(account, repo, version, useV1, chain) ==
  With(NewRequest(MetadataEndpoint(account, repo, version, useV1), <<>>),
    LAMBDA req : With(Do(req, chain), LAMBDA d :
     IF d.resp.neterr THEN Outcome(req, d, <<>>, ExecuteErr, FALSE)
     ELSE IF d.resp.status # StatusOK
       THEN Outcome(req, d, <<>>, StatusErr(d.resp), TRUE)
     ELSE IF ~DecodesAsObject(d.resp.body)
       THEN Outcome(req, d, <<>>, DecodeErr, TRUE)
     ELSE Outcome(req, d, <<ObjectOf(d.resp.body, ZeroPackageMetadata)>>, NoErr, TRUE)))

\* ------------------------------------------------- Client.GetPackageAssets
AssetsEndpoint(account, repo, version) ==
  <<"/v2/packages/">> \o account \o <<"/">> \o repo \o <<"/">> \o version
    \o <<"/assets">>

AssetsValues(assetType) ==
  Set(Set(EmptyValues, "type", assetType), "redirect", <<"false">>)

ZeroAssetResponse == [URL |-> <<>>, Content |-> <<>>, Type |-> <<>>]

\* A client without the array fallback.
GetPackageAssetsObjectOnly(account, repo, version, assetType, chain) ==
  With(NewRequest(AssetsEndpoint(account, repo, version),
                        Encode(AssetsValues(assetType))),
    LAMBDA req : With(Do(req, chain), LAMBDA d :
     IF d.resp.neterr THEN Outcome(req, d, <<>>, ExecuteErr, FALSE)
     ELSE IF d.resp.status = StatusTemporaryRedirect
       THEN Outcome(req, d, <<[ZeroAssetResponse EXCEPT !.URL = d.resp.location]>>,
                    NoErr, FALSE)
     ELSE IF d.resp.status # StatusOK
       THEN Outcome(req, d, <<>>, StatusErr(d.resp), TRUE)
     ELSE IF DecodesAsObject(d.resp.body)
       THEN Outcome(req, d, <<ObjectOf(d.resp.body, ZeroAssetResponse)>>, NoErr, TRUE)
     ELSE Outcome(req, d, <<>>, DecodeErr, TRUE)))

GetPackageAssets(account, repo, version, assetType, chain) ==
  With(NewRequest(AssetsEndpoint(account, repo, version),
                        Encode(AssetsValues(assetType))),
    LAMBDA req : With(Do(req, chain), LAMBDA d :
     IF d.resp.neterr THEN Outcome(req, d, <<>>, ExecuteErr, FALSE)
     ELSE IF d.resp.status = StatusTemporaryRedirect
       THEN Outcome(req, d, <<[ZeroAssetResponse EXCEPT !.URL = d.resp.location]>>,
                    NoErr, FALSE)
     ELSE IF d.resp.status # StatusOK
       THEN Outcome(req, d, <<>>, StatusErr(d.resp), TRUE)
     ELSE IF DecodesAsObject(d.resp.body)
       THEN Outcome(req, d, <<ObjectOf(d.resp.body, ZeroAssetResponse)>>, NoErr, TRUE)
     ELSE IF d.resp.body.json # "array"
       THEN Outcome(req, d, <<>>, DecodeErr, TRUE)
     ELSE IF Len(d.resp.body.val) > 0
       THEN Outcome(req, d, <<d.resp.body.val[1]>>, NoErr, TRUE)
     ELSE Outcome(req, d, <<ZeroAssetResponse>>, NoErr, TRUE)))

\* ------------------------------------- Client.GetV1Packages...Resources
ResourcesEndpoint(account, repo, version) ==
  <<"/v1/packages/">> \o account \o <<"/">> \o repo \o <<"/">> \o version
    \o <<"/resources">>

GroupKindEndpoint(account, repo, version, group, kind) ==
  ResourcesEndpoint(account, repo, version) \o <<"/">> \o group \o <<"/">> \o kind

ZeroPackageResources == [Resources |-> <<>>]
ZeroExamples == [Examples |-> <<>>]

GetV1PackagesAccountRepositoryVersionResources(account, repo, version, chain) ==
  With(NewRequest(ResourcesEndpoint(account, repo, version), <<>>),
    LAMBDA req : With(Do(req, chain), LAMBDA d :
     IF d.resp.neterr THEN Outcome(req, d, <<>>, ExecuteErr, FALSE)
     ELSE IF d.resp.status \in {StatusUnauthorized, StatusForbidden}
       THEN Outcome(req, d, <<>>, AuthRequiredErr, FALSE)
     ELSE IF d.resp.status # StatusOK
       THEN Outcome(req, d, <<>>, StatusErr(d.resp), TRUE)
     ELSE IF ~DecodesAsObject(d.resp.body)
       THEN Outcome(req, d, <<>>, DecodeErr, TRUE)
     ELSE Outcome(req, d, <<ObjectOf(d.resp.body, ZeroPackageResources)>>, NoErr, TRUE)))

\* The two calls that hand the body back as text; the text of a failed call
\* is the empty string.
GetV1PackagesAccountRepositoryVersionResourcesGroupKindComposition(account, repo, version, group, kind, name, chain) ==
  With(NewRequest(GroupKindEndpoint(account, repo, version, group, kind)
                          \o <<"/compositions/">> \o name, <<>>),
    LAMBDA req : With(Do(req, chain), LAMBDA d :
     IF d.resp.neterr THEN Outcome(req, d, <<>>, ExecuteErr, FALSE)
     ELSE IF d.resp.status \in {StatusUnauthorized, StatusForbidden}
       THEN Outcome(req, d, <<>>, AuthRequiredErr, FALSE)
     ELSE IF d.resp.status # StatusOK
       THEN Outcome(req, d, <<>>, StatusErr(d.resp), TRUE)
     ELSE Outcome(req, d, <<d.resp.body>>, NoErr, TRUE)))

GetV1PackagesAccountRepositoryVersionResourcesGroupKind(account, repo, version, group, kind, chain) ==
  With(NewRequest(GroupKindEndpoint(account, repo, version, group, kind), <<>>),
    LAMBDA req : With(Do(req, chain), LAMBDA d :
     IF d.resp.neterr THEN Outcome(req, d, <<>>, ExecuteErr, FALSE)
     ELSE IF d.resp.status \in {StatusUnauthorized, StatusForbidden}
       THEN Outcome(req, d, <<>>, AuthRequiredErr, FALSE)
     ELSE IF d.resp.status # StatusOK
       THEN Outcome(req, d, <<>>, StatusErr(d.resp), TRUE)
     ELSE Outcome(req, d, <<d.resp.body>>, NoErr, TRUE)))

GetV1PackagesAccountRepositoryVersionResourcesGroupKindExamples(account, repo, version, group, kind, chain) ==
  With(NewRequest(GroupKindEndpoint(account, repo, version, group, kind)
                          \o <<"/examples">>, <<>>),
    LAMBDA req : With(Do(req, chain), LAMBDA d :
     IF d.resp.neterr THEN Outcome(req, d, <<>>, ExecuteErr, FALSE)
     ELSE IF d.resp.status \in {StatusUnauthorized, StatusForbidden}
       THEN Outcome(req, d, <<>>, AuthRequiredErr, FALSE)
     ELSE IF d.resp.status # StatusOK
       THEN Outcome(req, d, <<>>, StatusErr(d.resp), TRUE)
     ELSE IF ~DecodesAsObject(d.resp.body)
       THEN Outcome(req, d, <<>>, DecodeErr, TRUE)
     ELSE Outcome(req, d, <<ObjectOf(d.resp.body, ZeroExamples)>>, NoErr, TRUE)))

\* ------------------------------------------------------ tool arguments
\* A tool call's argument map: every key holds a tagged JSON value, and the
\* tag "absent" stands for a key that is not in the map.
Absent == [t |-> "absent", s |-> <<>>, n |-> 0, b |-> FALSE]
Str(s) == [t |-> "string", s |-> s, n |-> 0, b |-> FALSE]
Num(n) == [t |-> "number", s |-> <<>>, n |-> n, b |-> FALSE]
Bool(b) == [t |-> "bool", s |-> <<>>, n |-> 0, b |-> b]

\* mcp.CallToolRequest.GetString / GetInt / GetBool / RequireString as the
\* handlers call them: the value when it has the asked type, else the default.
GetString(args, key, def) == IF args[key].t = "string" THEN args[key].s ELSE def
GetInt(args, key, def) == IF args[key].t = "number" THEN args[key].n ELSE def
GetBool(args, key, def) ==
  IF args[key].t = "bool" THEN args[key].b
  ELSE IF args[key].t = "number" THEN args[key].n # 0
  ELSE def
HasString(args, key) == args[key].t = "string"

\* ------------------------------------------------------------ getErrorCode
getErrorCodeSharingInternal(code) ==
  CASE code = "parse_error" -> -32700
    [] code = "invalid_request" -> -32600
    [] code = "method_not_found" -> -32601
    [] code = "invalid_params" -> -32602
    [] code = "unknown_tool" -> -32000
    [] code = "auth_required" -> -32001
    [] code = "auth_failed" -> -32002
    [] code = "search_failed" -> -32003
    [] code = "metadata_failed" -> -32004
    [] code = "assets_failed" -> -32005
    [] code = "repositories_failed" -> -32006
    [] code = "unknown_resource" -> -32603
    [] OTHER -> -32603

getErrorCode(code) ==
  CASE code = "parse_error" -> -32700
    [] code = "invalid_request" -> -32600
    [] code = "method_not_found" -> -32601
    [] code = "invalid_params" -> -32602
    [] code = "internal_error" -> -32603
    [] code = "unknown_tool" -> -32000
    [] code = "auth_required" -> -32001
    [] code = "auth_failed" -> -32002
    [] code = "search_failed" -> -32003
    [] code = "metadata_failed" -> -32004
    [] code = "assets_failed" -> -32005
    [] code = "repositories_failed" -> -32006
    [] code = "unknown_resource" -> -32007
    [] OTHER -> -32603

\* ------------------------------------------------------------ replies
NoRequest ==
  [method |-> "", base |-> <<>>, path |-> <<>>, rawQuery |-> <<>>,
   userAgent |-> <<>>, cookies |-> [n \in {} |-> ""], authorization |-> ""]

\* No client call was made.
NoOutcome ==
  [req |-> NoRequest, sent |-> <<>>, val |-> <<>>, err |-> NoErr,
   bodyRead |-> FALSE]

NoReply == [kind |-> "none", code |-> 0, text |-> "", goerr |-> FALSE]

\* mcp.NewToolResultText / mcp.NewToolResultError with the handler's second
\* return value (goerr: a non-nil Go error).
ToolResultText(text) == [kind |-> "text", code |-> 0, text |-> text, goerr |-> FALSE]
ToolResultError(text, goerr) ==
  [kind |-> "error", code |-> 0, text |-> text, goerr |-> goerr]

\* Server.sendResponse / Server.sendError of the line-oriented server: an
\* error for a request without id is not written at all.
sendResponse(text) == [kind |-> "text", code |-> 0, text |-> text, goerr |-> FALSE]
sendErrorUncoded(code, message, id) ==
  IF id = <<>> THEN NoReply
  ELSE [kind |-> "error", code |-> getErrorCode("internal_error"), text |-> message,
        goerr |-> FALSE]

sendError(code, message, id) ==
  IF id = <<>> THEN NoReply
  ELSE [kind |-> "error", code |-> getErrorCode(code), text |-> message,
        goerr |-> FALSE]

Handled(called, out, reply) == [called |-> called, out |-> out, reply |-> reply]

\* ------------------------------------- handlers of the mcp-go based server
\* A handler that passes `public` on only when it is true.
SearchParamsOfPublicTrue(args) ==
  [Query |-> GetString(args, "query", <<>>),
   Family |-> GetString(args, "family", <<>>),
   PackageType |-> GetString(args, "package_type", <<>>),
   AccountName |-> GetString(args, "account_name", <<>>),
   Tier |-> GetString(args, "tier", <<>>),
   Size |-> GetInt(args, "size", DefaultSize),
   Page |-> GetInt(args, "page", DefaultPage),
   UseV1 |-> GetBool(args, "use_v1", FALSE),
   Public |-> IF args["public"].t = "bool" /\ args["public"].b
                THEN <<TRUE>> ELSE <<>>,
   Starred |-> <<>>,
   Type |-> <<>>]

SearchParamsOf(args) ==
  [Query |-> GetString(args, "query", <<>>),
   Family |-> GetString(args, "family", <<>>),
   PackageType |-> GetString(args, "package_type", <<>>),
   AccountName |-> GetString(args, "account_name", <<>>),
   Tier |-> GetString(args, "tier", <<>>),
   Size |-> GetInt(args, "size", DefaultSize),
   Page |-> GetInt(args, "page", DefaultPage),
   UseV1 |-> GetBool(args, "use_v1", FALSE),
   Public |-> IF args["public"].t = "bool" THEN <<args["public"].b>> ELSE <<>>,
   Starred |-> <<>>,
   Type |-> <<>>]

handleSearchPackages(args, chain) ==
  With(SearchPackages(SearchParamsOf(args), chain),
  LAMBDA out :
     IF out.err # NoErr
       THEN Handled(TRUE, out, ToolResultError("Search failed", TRUE))
       ELSE Handled(TRUE, out, ToolResultText("search results")))

RepositoryParamsOf(args) ==
  [Filter |-> GetString(args, "filter", <<>>),
   Size |-> GetInt(args, "size", DefaultSize),
   Page |-> GetInt(args, "page", DefaultPage),
   UseV1 |-> GetBool(args, "use_v1", FALSE)]

handleGetRepositories(args, chain) ==
  IF ~HasString(args, "account")
    THEN Handled(FALSE, NoOutcome,
                 ToolResultError("account parameter is required", TRUE))
  ELSE With(GetRepositories(args["account"].s, RepositoryParamsOf(args), chain),
       LAMBDA out :
          IF out.err # NoErr
            THEN Handled(TRUE, out,
                         ToolResultError("Failed to get repositories", TRUE))
            ELSE Handled(TRUE, out, ToolResultText("repositories")))

handleGetPackageMetadata(args, chain) ==
  IF ~HasString(args, "account")
    THEN Handled(FALSE, NoOutcome,
                 ToolResultError("account parameter is required", TRUE))
  ELSE IF ~HasString(args, "repository")
    THEN Handled(FALSE, NoOutcome,
                 ToolResultError("repository parameter is required", TRUE))
  ELSE With(GetPackageMetadata(args["account"].s, args["repository"].s,
                                     GetString(args, "version", <<>>),
                                     GetBool(args, "use_v1", FALSE), chain),
       LAMBDA out :
          IF out.err # NoErr
            THEN Handled(TRUE, out,
                         ToolResultError("Failed to get package metadata", TRUE))
            ELSE Handled(TRUE, out, ToolResultText("package metadata")))

\* ----------------------------- handlers of the line-oriented (stdio) server
\* strings.Contains(err.Error(), "authentication required"): the error text
\* of a failed status carries the response body.
ContainsAuthRequired(err) ==
  \/ err.kind = AuthRequiredErr.kind
  \/ /\ err.kind = "API request failed with status"
     /\ err.text.json = "invalid"
     /\ \E i \in 1..Len(err.text.val) : err.text.val[i] = "authentication required"

\* args[key].(string), args[key].(float64), args[key].(bool) assertions.
StdioSearchParamsOf(args) ==
  [Query |-> IF args["query"].t = "string" THEN args["query"].s ELSE <<>>,
   Family |-> IF args["family"].t = "string" THEN args["family"].s ELSE <<>>,
   PackageType |-> IF args["package_type"].t = "string"
                     THEN args["package_type"].s ELSE <<>>,
   AccountName |-> IF args["account_name"].t = "string"
                     THEN args["account_name"].s ELSE <<>>,
   Tier |-> IF args["tier"].t = "string" THEN args["tier"].s ELSE <<>>,
   Public |-> IF args["public"].t = "bool" THEN <<args["public"].b>> ELSE <<>>,
   Size |-> IF args["size"].t = "number" THEN args["size"].n ELSE 0,
   Page |-> IF args["page"].t = "number" THEN args["page"].n ELSE 0,
   UseV1 |-> IF args["use_v1"].t = "bool" THEN args["use_v1"].b ELSE FALSE,
   Starred |-> <<>>,
   Type |-> <<>>]

stdioHandleSearchPackages(id, args, chain) ==
  With(SearchPackages(StdioSearchParamsOf(args), chain),
  LAMBDA out :
     IF out.err # NoErr
       THEN Handled(TRUE, out, sendError("search_failed", out.err.kind, id))
       ELSE Handled(TRUE, out, sendResponse("search results")))

StdioRepositoryParamsOf(args) ==
  [Filter |-> IF args["filter"].t = "string" THEN args["filter"].s ELSE <<>>,
   Size |-> IF args["size"].t = "number" THEN args["size"].n ELSE 0,
   Page |-> IF args["page"].t = "number" THEN args["page"].n ELSE 0,
   UseV1 |-> IF args["use_v1"].t = "bool" THEN args["use_v1"].b ELSE FALSE]

stdioHandleGetRepositories(id, args, chain) ==
  IF args["account"].t # "string"
    THEN Handled(FALSE, NoOutcome,
                 sendError("invalid_params", "Missing required parameter: account", id))
  ELSE With(GetRepositories(args["account"].s, StdioRepositoryParamsOf(args),
                                  chain),
       LAMBDA out :
          IF out.err # NoErr
            THEN IF ContainsAuthRequired(out.err)
                   THEN Handled(TRUE, out,
                                sendError("auth_required", "Authentication required", id))
                   ELSE Handled(TRUE, out,
                                sendError("repositories_failed", out.err.kind, id))
            ELSE Handled(TRUE, out, sendResponse("repositories")))

\* ------------------------------------------------------------ inputs
ApiURL == <<"https", ":", "//", "api.", "upbound.io">>
SessionToken == "sid-1"
CdnURL == <<"https", ":", "//", "cdn.example", "/", "x.tar.gz">>

QueryVals == {<<>>, <<"aws", " ", "s3">>}
FamilyVals == {<<>>, <<"fam", "&", "x">>}
PackageTypeVals == {<<>>, <<"p", "=", "q">>}
AccountNameVals == {<<>>, <<"o", "'", "r">>}
TierVals == {<<>>, <<"t", "%", "+">>}
TypeVals == {<<>>, <<"x", "?", "#">>}
RepoFilterVals == {<<>>, <<"name", " ", "=", " ", "'", "s3", "'">>}
SizeVals == (-1..MaxSize) \cup {DefaultSize}
PageVals == -1..MaxPage
PtrBools == {<<>>, <<TRUE>>, <<FALSE>>}
\* Path segments: names without URL metacharacters.
Accounts == {<<"upbound">>}
\* GetRepositories is also asked with an empty account.
RepositoryAccounts == Accounts \cup {<<>>}
Repos == {<<"provider-aws">>}
Versions == {<<>>, <<"v1.2.3">>}
AssetTypes == {<<"docs">>, <<"icon">>}
IDs == {<<>>, <<1>>}
Groups == {<<"aws.example">>}
Kinds == {<<"XBucket">>}
CompositionNames == {<<"xbuckets">>}

\* Every combination of the filter fields without paging and flags, and
\* every combination of paging and flags behind one filter field.
SearchParamsSet ==
  [Query : QueryVals, Family : FamilyVals, PackageType : PackageTypeVals,
   AccountName : AccountNameVals, Tier : TierVals, Size : {0},
   Page : {0}, Public : {<<>>}, Starred : {<<>>}, Type : TypeVals,
   UseV1 : BOOLEAN]
  \cup
  [Query : {<<>>}, Family : {<<>>}, PackageType : {<<>>},
   AccountName : {<<>>}, Tier : TierVals \ {<<>>}, Size : SizeVals,
   Page : PageVals, Public : PtrBools, Starred : PtrBools, Type : TypeVals,
   UseV1 : BOOLEAN]

RepositoryParamsSet ==
  [Filter : RepoFilterVals, Size : SizeVals, Page : PageVals, UseV1 : BOOLEAN]

ObjectBody(v) == [json |-> "object", val |-> v]
ArrayBody(v) == [json |-> "array", val |-> v]
NullBody == [json |-> "null", val |-> <<>>]
InvalidBody(text) == [json |-> "invalid", val |-> text]
\* Valid JSON that no struct or slice takes: a string or a number, and an
\* object with a field of the wrong type.
ScalarBody(text) == [json |-> "scalar", val |-> text]
MistypedBody == [json |-> "mistyped", val |-> <<>>]

SomeSearchResponse == [Packages |-> <<"provider-aws">>, Total |-> 1]
SomeRepositoryResponse ==
  [Repositories |-> << [Account |-> <<>>, Name |-> <<"r1">>],
                       [Account |-> <<"other">>, Name |-> <<"r2">>] >>,
   Count |-> 2]
SomePackageMetadata == [Name |-> <<"provider-aws">>]
SomeAsset == [URL |-> <<>>, Content |-> <<"# readme">>, Type |-> <<"readme">>]
OtherAsset == [URL |-> <<"https", ":", "//", "cdn.example", "/", "other">>, Content |-> <<>>, Type |-> <<>>]

SomePackageResources == [Resources |-> <<"xbuckets.aws.example">>]
SomeExamples == [Examples |-> <<"bucket.yaml">>]

StatusNoContent == 204
StatusFound == 302

Denied == Response(StatusForbidden, <<>>, InvalidBody(<<"forbidden">>))
Unauthorized == Response(StatusUnauthorized, <<>>, NoBody)
\* A success code other than 200, and a redirect status without Location.
NoContent == Response(StatusNoContent, <<>>, NoBody)
Found == Response(StatusFound, <<>>, InvalidBody(<<"moved">>))
Failed == Response(StatusInternalServerError, <<>>, InvalidBody(<<"boom">>))

SearchResponses ==
  {Response(StatusOK, <<>>, ObjectBody(SomeSearchResponse)), Denied, NoContent, NetErr}
RepositoryResponses ==
  {Response(StatusOK, <<>>, ObjectBody(SomeRepositoryResponse)),
   Response(StatusOK, <<>>, InvalidBody(<<"oops">>)),
   Unauthorized, Denied, NoContent,
   Response(StatusInternalServerError, <<>>, InvalidBody(<<"authentication required">>)),
   Failed, NetErr}
MetadataResponses ==
  {Response(StatusOK, <<>>, ObjectBody(SomePackageMetadata)), Unauthorized, Denied,
   NoContent, Found, Failed, NetErr}
AssetResponses ==
  {Response(StatusOK, <<>>, ObjectBody(SomeAsset)),
   Response(StatusOK, <<>>, ArrayBody(<<OtherAsset, SomeAsset>>)),
   Response(StatusOK, <<>>, ArrayBody(<<>>)),
   Response(StatusOK, <<>>, NullBody),
   Response(StatusOK, <<>>, InvalidBody(<<"tarball bytes">>)),
   Response(StatusOK, <<>>, ScalarBody(<<"7">>)),
   Response(StatusOK, <<>>, MistypedBody),
   Response(StatusTemporaryRedirect, <<>>, NoBody),
   Unauthorized, Denied, NoContent, Failed, NetErr}
ResourceResponses ==
  {Response(StatusOK, <<>>, ObjectBody(SomePackageResources)),
   Response(StatusOK, <<>>, InvalidBody(<<"kind: Composition">>)),
   Unauthorized, Denied, NoContent, Found, Failed, NetErr}
ExamplesResponses ==
  {Response(StatusOK, <<>>, ObjectBody(SomeExamples)),
   Response(StatusOK, <<>>, InvalidBody(<<"oops">>)),
   Unauthorized, Denied, NoContent, Failed, NetErr}

\* A redirect a server may answer with.
RedirectResponses == {Response(StatusTemporaryRedirect, CdnURL, NoBody)}

\* The answers of the servers on the way: at most MaxHops - 1 redirects,
\* then one answer out of terminal.
Chains(terminal) ==
  UNION { { r \o <<t>> : r \in [1..(n - 1) -> RedirectResponses], t \in terminal }
          : n \in 1..MaxHops }

\* Without a base URL no server is ever asked.
ChainsFor(chains) == IF BaseURL = <<>> THEN {<<NetErr>>} ELSE chains
Direct(terminal) == ChainsFor({ <<t>> : t \in terminal })

\* ------------------------------------------------------------ net/url
\* strings.HasPrefix(u.Host, "api.")
HasApiPrefix(host) == host # <<>> /\ host[1] = "api."

NoURL == [Scheme |-> <<>>, Opaque |-> <<>>, Host |-> <<>>, Path |-> <<>>]

\* url.Parse: the scheme ends at the first ":", an authority follows "//" and
\* ends at the next "/", a rest without leading slash after a scheme is
\* opaque, and a text without scheme and without "//" is a path.  "%zz" is
\* an invalid escape.
Parse(s) ==
  IF \E i \in 1..Len(s) : s[i] = "%zz" THEN [err |-> TRUE, u |-> NoURL]
  ELSE LET hasScheme == Len(s) >= 2 /\ s[2] = ":"
           scheme == IF hasScheme THEN <<s[1]>> ELSE <<>>
           rest == IF hasScheme THEN SubSeq(s, 3, Len(s)) ELSE s
       IN IF rest # <<>> /\ rest[1] = "//"
            THEN LET authority == Tail(rest)
                     i == IndexOf(authority, "/")
                 IN [err |-> FALSE,
                     u |-> [Scheme |-> scheme, Opaque |-> <<>>,
                            Host |-> IF i = 0 THEN authority
                                     ELSE SubSeq(authority, 1, i - 1),
                            Path |-> IF i = 0 THEN <<>>
                                     ELSE SubSeq(authority, i, Len(authority))]]
          ELSE IF hasScheme /\ rest # <<>> /\ rest[1] # "/"
            THEN [err |-> FALSE,
                  u |-> [Scheme |-> scheme, Opaque |-> rest, Host |-> <<>>,
                         Path |-> <<>>]]
          ELSE [err |-> FALSE,
                u |-> [Scheme |-> scheme, Opaque |-> <<>>, Host |-> <<>>,
                       Path |-> rest]]

\* URL.String
URLString(u) ==
  LET scheme == IF u.Scheme # <<>> THEN u.Scheme \o <<":">> ELSE <<>>
  IN IF u.Opaque # <<>> THEN scheme \o u.Opaque
     ELSE scheme
            \o (IF (u.Scheme # <<>> \/ u.Host # <<>>)
                     /\ (u.Host # <<>> \/ u.Path # <<>>)
                  THEN <<"//">> ELSE <<>>)
            \o u.Host
            \o (IF u.Path # <<>> /\ u.Path[1] # "/" /\ u.Host # <<>>
                  THEN <<"/">> ELSE <<>>)
            \o u.Path

\* ------------------------------------------------------------ auth.Manager
MountedPath == <<"/mcp/.up/config.json">>

\* filepath.Join(homeDir, ".up", "config.json")
HomeConfigPath(homeDir) ==
  IF homeDir = <<>> THEN <<".up", "/", "config.json">>
  ELSE homeDir \o <<"/", ".up", "/", "config.json">>

\* A path choice that prefers the mounted file to the environment override.
NewManagerMountedFirst(e) ==
  IF e.mounted THEN MountedPath
  ELSE IF e.UP_CONFIG_PATH # <<>> THEN e.UP_CONFIG_PATH
  ELSE HomeConfigPath(e.HOME)

\* NewManager: e.mounted is the outcome of os.Stat on the mounted path.
NewManager(e) ==
  IF e.UP_CONFIG_PATH # <<>> THEN e.UP_CONFIG_PATH
  ELSE IF e.mounted THEN MountedPath
  ELSE HomeConfigPath(e.HOME)

\* The file at a path: missing, unreadable, not JSON, or a UPConfig with its
\* default profile name and its profiles.
NoProfiles == [n \in {} |-> [Session |-> "", Domain |-> <<>>]]
Missing == [state |-> "missing", Default |-> "", Profiles |-> NoProfiles]
Unreadable == [state |-> "unreadable", Default |-> "", Profiles |-> NoProfiles]
NotJSON == [state |-> "invalid", Default |-> "", Profiles |-> NoProfiles]
Config(default, profiles) ==
  [state |-> "ok", Default |-> default, Profiles |-> profiles]

NoConfig == Config("", NoProfiles)
NoProfile == [Session |-> "", Domain |-> <<>>]
NoToken == <<>>

\* Manager.loadConfig
loadConfig(m, fs) ==
  LET f == fs[m]
  IN IF f.state = "missing"
       THEN [config |-> NoConfig, err |-> "UP CLI config not found"]
     ELSE IF f.state = "unreadable"
       THEN [config |-> NoConfig, err |-> "failed to read UP CLI config"]
     ELSE IF f.state = "invalid"
       THEN [config |-> NoConfig, err |-> "failed to parse UP CLI config"]
     ELSE [config |-> f, err |-> ""]

\* A getter that hands out the session of the default profile unchecked.
GetCurrentTokenUnchecked(m, fs) ==
  LET c == loadConfig(m, fs)
      defaultProfile == c.config.Default
  IN IF c.err # ""
       THEN [token |-> NoToken, err |-> "failed to load UP CLI config"]
     ELSE IF defaultProfile = ""
       THEN [token |-> NoToken, err |-> "no default profile set in UP CLI config"]
     ELSE IF defaultProfile \notin DOMAIN c.config.Profiles
       THEN [token |-> NoToken, err |-> "default profile not found in UP CLI config"]
     ELSE [token |-> <<[AccessToken |-> c.config.Profiles[defaultProfile].Session,
                        TokenType |-> "Session"]>>,
           err |-> ""]

\* Manager.GetCurrentToken
GetCurrentToken(m, fs) ==
  LET c == loadConfig(m, fs)
      defaultProfile == c.config.Default
  IN IF c.err # ""
       THEN [token |-> NoToken, err |-> "failed to load UP CLI config"]
     ELSE IF defaultProfile = ""
       THEN [token |-> NoToken, err |-> "no default profile set in UP CLI config"]
     ELSE IF defaultProfile \notin DOMAIN c.config.Profiles
       THEN [token |-> NoToken, err |-> "default profile not found in UP CLI config"]
     ELSE IF c.config.Profiles[defaultProfile].Session = ""
       THEN [token |-> NoToken, err |-> "no session token found in profile"]
     ELSE [token |-> <<[AccessToken |-> c.config.Profiles[defaultProfile].Session,
                        TokenType |-> "Session"]>>,
           err |-> ""]

\* Manager.GetCurrentProfile
GetCurrentProfile(m, fs) ==
  LET c == loadConfig(m, fs)
      defaultProfile == c.config.Default
  IN IF c.err # ""
       THEN [profile |-> NoProfile, err |-> "failed to load UP CLI config"]
     ELSE IF defaultProfile = ""
       THEN [profile |-> NoProfile, err |-> "no default profile set in UP CLI config"]
     ELSE IF defaultProfile \notin DOMAIN c.config.Profiles
       THEN [profile |-> NoProfile,
             err |-> "default profile not found in UP CLI config"]
     ELSE [profile |-> c.config.Profiles[defaultProfile], err |-> ""]

\* Manager.GetCurrentServerURL
GetCurrentServerURL(m, fs) ==
  LET p == GetCurrentProfile(m, fs)
      parsed == Parse(p.profile.Domain)
  IN IF p.err # "" THEN [url |-> <<>>, err |-> "failed to get current profile"]
     ELSE IF p.profile.Domain = <<>> THEN [url |-> ApiURL, err |-> ""]
     ELSE IF parsed.err THEN [url |-> <<>>, err |-> "failed to parse domain URL"]
     ELSE IF ~HasApiPrefix(parsed.u.Host)
       THEN [url |-> URLString([parsed.u EXCEPT !.Host = <<"api.">> \o parsed.u.Host]),
             err |-> ""]
     ELSE [url |-> URLString(parsed.u), err |-> ""]

\* ------------------------------------------------- NewClient, NewServer
\* NewClient: no base URL, no token, an http.Client with a timeout of 30 s.
NewClient == [BaseURL |-> <<>>, Token |-> "", HTTPClient |-> <<[Timeout |-> 30]>>]

\* A setter that also forgets the base URL.
SetTokenResettingBaseURL(c, token) == [c EXCEPT !.Token = token, !.BaseURL = <<>>]

SetToken(c, token) == [c EXCEPT !.Token = token]
SetBaseURL(c, baseURL) == [c EXCEPT !.BaseURL = baseURL]

\* NewClient leaves both fields empty; NewServer sets the base URL and the
\* token that the manager can load, each on its own.
NewServer(m, fs) ==
  LET url == GetCurrentServerURL(m, fs)
      tok == GetCurrentToken(m, fs)
  IN [BaseURL |-> IF url.err = "" THEN url.url ELSE <<>>,
      Token |-> IF tok.err = "" THEN tok.token[1].AccessToken ELSE ""]

\* ---------------------------------------------- the remaining tool handlers
\* The first of the keys that is not a string argument, "" when all are:
\* the cascade of RequireString calls and of .(string) assertions.
RECURSIVE FirstMissing(_, _)
FirstMissing(args, keys) ==
  IF keys = <<>> THEN ""
  ELSE IF ~HasString(args, Head(keys)) THEN Head(keys)
  ELSE FirstMissing(args, Tail(keys))

RequiredText(key) ==
  CASE key = "account" -> "account parameter is required"
    [] key = "repository" -> "repository parameter is required"
    [] key = "repository_name" -> "repository_name parameter is required"
    [] key = "version" -> "version parameter is required"
    [] key = "asset_type" -> "asset_type parameter is required"
    [] key = "resource_group" -> "resource_group parameter is required"
    [] key = "resource_kind" -> "resource_kind parameter is required"
    [] key = "composition_name" -> "composition_name parameter is required"

validAssetTypes == {<<"docs">>, <<"icon">>, <<"readme">>, <<"releaseNotes">>, <<"sbom">>}

handleGetPackageAssets(args, chain) ==
  LET missing == FirstMissing(args, <<"account", "repository", "version", "asset_type">>)
  IN IF missing # ""
       THEN Handled(FALSE, NoOutcome, ToolResultError(RequiredText(missing), TRUE))
     ELSE IF args["asset_type"].s \notin validAssetTypes
       THEN Handled(FALSE, NoOutcome, ToolResultError("Invalid asset_type", FALSE))
     ELSE With(GetPackageAssets(args["account"].s, args["repository"].s,
                                      args["version"].s, args["asset_type"].s, chain),
          LAMBDA out :
             IF out.err # NoErr
               THEN Handled(TRUE, out,
                            ToolResultError("Failed to get package assets", FALSE))
               ELSE Handled(TRUE, out, ToolResultText("package assets")))

handleGetPackagesAccountRepositoryVersionResources(args, chain) ==
  LET missing == FirstMissing(args, <<"account", "repository_name", "version">>)
  IN IF missing # ""
       THEN Handled(FALSE, NoOutcome, ToolResultError(RequiredText(missing), TRUE))
     ELSE With(GetV1PackagesAccountRepositoryVersionResources(
                       args["account"].s, args["repository_name"].s,
                       args["version"].s, chain),
          LAMBDA out :
             IF out.err # NoErr
               THEN Handled(TRUE, out, ToolResultError("Failed to get repositories", TRUE))
               ELSE Handled(TRUE, out, ToolResultText("package resources")))

handleGetPackagesAccountRepositoryVersionResourcesGroupKindComposition(args, chain) ==
  LET missing == FirstMissing(args, <<"account", "repository_name", "version",
                                      "resource_group", "resource_kind",
                                      "composition_name">>)
  IN IF missing # ""
       THEN Handled(FALSE, NoOutcome, ToolResultError(RequiredText(missing), TRUE))
     ELSE With(GetV1PackagesAccountRepositoryVersionResourcesGroupKindComposition(
                       args["account"].s, args["repository_name"].s,
                       args["version"].s, args["resource_group"].s,
                       args["resource_kind"].s, args["composition_name"].s, chain),
          LAMBDA out :
             IF out.err # NoErr
               THEN Handled(TRUE, out, ToolResultError("Failed to get repositories", TRUE))
               ELSE Handled(TRUE, out, ToolResultText("composition")))

handleGetPackagesAccountRepositoryVersionResourcesGroupKind(args, chain) ==
  LET missing == FirstMissing(args, <<"account", "repository_name", "version",
                                      "resource_group", "resource_kind">>)
  IN IF missing # ""
       THEN Handled(FALSE, NoOutcome, ToolResultError(RequiredText(missing), TRUE))
     ELSE With(GetV1PackagesAccountRepositoryVersionResourcesGroupKind(
                       args["account"].s, args["repository_name"].s,
                       args["version"].s, args["resource_group"].s,
                       args["resource_kind"].s, chain),
          LAMBDA out :
             IF out.err # NoErr
               THEN Handled(TRUE, out, ToolResultError("Failed to get repositories", TRUE))
               ELSE Handled(TRUE, out, ToolResultText("resource")))

handleGetPackagesAccountRepositoryVersionResourcesGroupKindExamples(args, chain) ==
  LET missing == FirstMissing(args, <<"account", "repository_name", "version",
                                      "resource_group", "resource_kind">>)
  IN IF missing # ""
       THEN Handled(FALSE, NoOutcome, ToolResultError(RequiredText(missing), TRUE))
     ELSE With(GetV1PackagesAccountRepositoryVersionResourcesGroupKindExamples(
                       args["account"].s, args["repository_name"].s,
                       args["version"].s, args["resource_group"].s,
                       args["resource_kind"].s, chain),
          LAMBDA out :
             IF out.err # NoErr
               THEN Handled(TRUE, out, ToolResultError("Failed to get repositories", TRUE))
               ELSE Handled(TRUE, out, ToolResultText("examples")))

\* The tools registerTools adds, reload_auth aside, with their handlers.
ToolNames ==
  {"search_packages", "get_package_metadata", "get_package_assets",
   "get_repositories", "get_package_version_resources",
   "get_package_version_composition_resources",
   "get_package_version_groupkind_resources", "get_package_version_examples"}

CallTool(name, args, chain) ==
  CASE name = "search_packages" -> handleSearchPackages(args, chain)
    [] name = "get_package_metadata" -> handleGetPackageMetadata(args, chain)
    [] name = "get_package_assets" -> handleGetPackageAssets(args, chain)
    [] name = "get_repositories" -> handleGetRepositories(args, chain)
    [] name = "get_package_version_resources" ->
         handleGetPackagesAccountRepositoryVersionResources(args, chain)
    [] name = "get_package_version_composition_resources" ->
         handleGetPackagesAccountRepositoryVersionResourcesGroupKindComposition(args, chain)
    [] name = "get_package_version_groupkind_resources" ->
         handleGetPackagesAccountRepositoryVersionResourcesGroupKind(args, chain)
    [] name = "get_package_version_examples" ->
         handleGetPackagesAccountRepositoryVersionResourcesGroupKindExamples(args, chain)

stdioHandleGetPackageMetadata(id, args, chain) ==
  LET missing == FirstMissing(args, <<"account", "repository">>)
  IN IF missing # ""
       THEN Handled(FALSE, NoOutcome,
                    sendError("invalid_params", "Missing required parameter", id))
     ELSE With(GetPackageMetadata(
                       args["account"].s, args["repository"].s,
                       IF args["version"].t = "string" THEN args["version"].s ELSE <<>>,
                       IF args["use_v1"].t = "bool" THEN args["use_v1"].b ELSE FALSE,
                       chain),
          LAMBDA out :
             IF out.err # NoErr
               THEN Handled(TRUE, out, sendError("metadata_failed", out.err.kind, id))
               ELSE Handled(TRUE, out, sendResponse("package metadata")))

stdioHandleGetPackageAssets(id, args, chain) ==
  LET missing == FirstMissing(args, <<"account", "repository", "version", "asset_type">>)
  IN IF missing # ""
       THEN Handled(FALSE, NoOutcome,
                    sendError("invalid_params", "Missing required parameter", id))
     ELSE With(GetPackageAssets(args["account"].s, args["repository"].s,
                                      args["version"].s, args["asset_type"].s, chain),
          LAMBDA out :
             IF out.err # NoErr
               THEN Handled(TRUE, out, sendError("assets_failed", out.err.kind, id))
               ELSE Handled(TRUE, out, sendResponse("package assets")))

\* Server.handleToolsCall of the line-oriented server, reload_auth aside.
StdioToolNames ==
  {"search_packages", "get_package_metadata", "get_package_assets",
   "get_repositories"}

handleToolsCall(name, id, args, chain) ==
  CASE name = "search_packages" -> stdioHandleSearchPackages(id, args, chain)
    [] name = "get_package_metadata" -> stdioHandleGetPackageMetadata(id, args, chain)
    [] name = "get_package_assets" -> stdioHandleGetPackageAssets(id, args, chain)
    [] name = "get_repositories" -> stdioHandleGetRepositories(id, args, chain)
    [] OTHER -> Handled(FALSE, NoOutcome, sendError("unknown_tool", "Unknown tool", id))

\* ------------------------------------------------------------ reload_auth
\* What a reload leaves in the client's fields, and its reply.
Reloaded(base, token, reply) == [BaseURL |-> base, Token |-> token, reply |-> reply]

\* A handler that re-reads the configuration when a call was refused.
RefreshOnDenied(h, m, fs, base, token) ==
  LET fresh == NewServer(m, fs)
  IN IF h.out.err = AuthRequiredErr
          \/ (h.out.err.kind = "API request failed with status"
                /\ h.out.err.status \in {StatusUnauthorized, StatusForbidden})
       THEN [BaseURL |-> fresh.BaseURL, Token |-> fresh.Token]
       ELSE [BaseURL |-> base, Token |-> token]

\* What a tool handler other than reload_auth leaves in the client's fields.
AfterToolCall(h, m, fs, base, token) == [BaseURL |-> base, Token |-> token]

\* Server.handleReloadAuth of the mcp-go based server: the token first, then
\* the server URL.
handleReloadAuth(m, fs, base, token) ==
  LET tok == GetCurrentToken(m, fs)
      url == GetCurrentServerURL(m, fs)
  IN IF tok.err = ""
       THEN IF url.err = ""
              THEN Reloaded(url.url, tok.token[1].AccessToken,
                            ToolResultText("Successfully reloaded authentication and server configuration."))
              ELSE Reloaded(base, tok.token[1].AccessToken,
                            ToolResultText("Successfully reloaded authentication token from UP CLI profile, but failed to reload server URL."))
       ELSE Reloaded(base, token,
                     ToolResultError("Failed to reload authentication from UP CLI", FALSE))

\* Server.handleReloadAuth of the line-oriented server: the server URL first,
\* then the token, then the profile for the reply.
stdioHandleReloadAuth(id, m, fs, base, token) ==
  LET url == GetCurrentServerURL(m, fs)
      tok == GetCurrentToken(m, fs)
      profile == GetCurrentProfile(m, fs)
  IN IF url.err # ""
       THEN Reloaded(base, token,
                     sendError("auth_failed", "Failed to load server URL from UP CLI profile", id))
     ELSE IF tok.err # ""
       THEN Reloaded(url.url, token,
                     sendError("auth_failed", "Failed to load authentication from UP CLI", id))
     ELSE IF profile.err # ""
       THEN Reloaded(url.url, tok.token[1].AccessToken,
                     sendError("auth_failed", "Failed to get current profile", id))
     ELSE Reloaded(url.url, tok.token[1].AccessToken,
                   sendResponse("Authentication and server configuration reloaded successfully!"))

\* ------------------------------------------------------------ state
\* The environment and the files a process may start with.
EnvPath == <<"/etc/up/config.json">>
HomeDir == <<"/root">>
\* HOME is unset only where NewManager comes to ask for it.
Envs ==
  { e \in [UP_CONFIG_PATH : {<<>>, EnvPath}, mounted : BOOLEAN,
           HOME : {HomeDir, <<>>}] :
      e.HOME = <<>> => (e.UP_CONFIG_PATH = <<>> /\ ~e.mounted) }
DefaultEnv == [UP_CONFIG_PATH |-> <<>>, mounted |-> FALSE, HOME |-> HomeDir]
Paths == {EnvPath, MountedPath, HomeConfigPath(HomeDir), HomeConfigPath(<<>>)}

OtherToken == "sid-2"
ExampleURL == <<"https", ":", "//", "example.com">>
DomainVals ==
  {<<>>, <<"example.com">>, ExampleURL,
   <<"https", ":", "//", "api.", "example.com">>,
   <<"https", ":", "//", "%zz">>}

OneProfile(name, session, domain) ==
  [n \in {name} |-> [Session |-> session, Domain |-> domain]]
TwoProfiles ==
  [n \in {"team-a", "team-b"} |->
     IF n = "team-a" THEN [Session |-> SessionToken, Domain |-> <<>>]
     ELSE [Session |-> OtherToken, Domain |-> ExampleURL]]

DefaultConfig == Config("team-a", OneProfile("team-a", SessionToken, <<>>))
OtherConfig == Config("team-b", TwoProfiles)
\* The file at a path the manager was not given.
DecoyConfig ==
  Config("decoy", OneProfile("decoy", "sid-decoy",
                             <<"https", ":", "//", "decoy.example">>))

ConfigVals ==
  {Missing, Unreadable, NotJSON,
   Config("", OneProfile("team-a", SessionToken, <<>>)),
   Config("team-b", OneProfile("team-a", SessionToken, <<>>)),
   Config("team-a", OneProfile("team-a", "", <<>>)),
   OtherConfig}
  \cup { Config("team-a", OneProfile("team-a", SessionToken, d)) : d \in DomainVals }

\* The file systems of an environment: any content at the path the manager
\* picks, the mounted file there or not as os.Stat found it.
FileSystemsOf(e) ==
  { [p \in Paths |->
       IF p = NewManager(e) THEN c
       ELSE IF p = MountedPath /\ ~e.mounted THEN Missing
       ELSE DecoyConfig]
    : c \in IF NewManager(e) = MountedPath THEN ConfigVals \ {Missing}
            ELSE ConfigVals }

NoFlight == [pc |-> "idle", base |-> <<>>]
NoReload == [pc |-> "idle"]

\* NewManager, NewClient and NewServer in environment e with the files fs.
Started(e, fs) ==
  /\ env = e
  /\ files = fs
  /\ configPath = NewManager(e)
  /\ BaseURL = NewServer(NewManager(e), fs).BaseURL
  /\ Token = NewServer(NewManager(e), fs).Token
  /\ call = [op |-> "none"]
  /\ wire = <<>>
  /\ result = Handled(FALSE, NoOutcome, NoReply)
  /\ flight = NoFlight
  /\ reload = NoReload

\* A process started in the default environment, with the default profile
\* or with no configuration file.
Init ==
  \E c \in {Missing, DefaultConfig} :
    Started(DefaultEnv,
            [p \in Paths |-> IF p = HomeConfigPath(HomeDir) THEN c ELSE Missing])

\* The server takes a call when it is idle; the call runs to completion.
Idle == call.op = "none"

Finish(c, h) ==
  /\ call' = c
  /\ wire' = h.out.sent
  /\ result' = h
  /\ BaseURL' = AfterToolCall(h, configPath, files, BaseURL, Token).BaseURL
  /\ Token' = AfterToolCall(h, configPath, files, BaseURL, Token).Token
  /\ UNCHANGED <<hostVars, raceVars>>

\* ------------------------------------------------------------ actions
ClientSearchPackages ==
  /\ Idle
  /\ \E params \in SearchParamsSet, chain \in Direct(SearchResponses) :
       Finish([op |-> "SearchPackages", params |-> params, chain |-> chain],
              Handled(TRUE, SearchPackages(params, chain), NoReply))

ClientGetRepositories ==
  /\ Idle
  /\ \E account \in RepositoryAccounts, params \in RepositoryParamsSet,
        chain \in Direct(RepositoryResponses) :
       Finish([op |-> "GetRepositories", account |-> account, params |-> params,
               chain |-> chain],
              Handled(TRUE, GetRepositories(account, params, chain), NoReply))

ClientGetPackageMetadata ==
  /\ Idle
  /\ \E account \in Accounts, repo \in Repos, version \in Versions,
        useV1 \in BOOLEAN, chain \in Direct(MetadataResponses) :
       Finish([op |-> "GetPackageMetadata", account |-> account, repo |-> repo,
               version |-> version, useV1 |-> useV1, chain |-> chain],
              Handled(TRUE, GetPackageMetadata(account, repo, version, useV1, chain),
                      NoReply))

ClientGetPackageAssets ==
  /\ Idle
  /\ \E account \in Accounts, repo \in Repos, version \in Versions \ {<<>>},
        assetType \in AssetTypes, chain \in ChainsFor(Chains(AssetResponses)) :
       Finish([op |-> "GetPackageAssets", account |-> account, repo |-> repo,
               version |-> version, assetType |-> assetType, chain |-> chain],
              Handled(TRUE, GetPackageAssets(account, repo, version, assetType, chain),
                      NoReply))

ClientGetResources ==
  /\ Idle
  /\ \E account \in Accounts, repo \in Repos, version \in Versions \ {<<>>},
        chain \in Direct(ResourceResponses) :
       Finish([op |-> "GetResources", account |-> account, repo |-> repo,
               version |-> version, chain |-> chain],
              Handled(TRUE,
                      GetV1PackagesAccountRepositoryVersionResources(
                        account, repo, version, chain),
                      NoReply))

ClientGetGroupKindComposition ==
  /\ Idle
  /\ \E account \in Accounts, repo \in Repos, version \in Versions \ {<<>>},
        group \in Groups, kind \in Kinds, name \in CompositionNames,
        chain \in Direct(ResourceResponses) :
       Finish([op |-> "GetGroupKindComposition", account |-> account,
               repo |-> repo, version |-> version, group |-> group,
               kind |-> kind, name |-> name, chain |-> chain],
              Handled(TRUE,
                      GetV1PackagesAccountRepositoryVersionResourcesGroupKindComposition(
                        account, repo, version, group, kind, name, chain),
                      NoReply))

ClientGetGroupKind ==
  /\ Idle
  /\ \E account \in Accounts, repo \in Repos, version \in Versions \ {<<>>},
        group \in Groups, kind \in Kinds, chain \in Direct(ResourceResponses) :
       Finish([op |-> "GetGroupKind", account |-> account, repo |-> repo,
               version |-> version, group |-> group, kind |-> kind,
               chain |-> chain],
              Handled(TRUE,
                      GetV1PackagesAccountRepositoryVersionResourcesGroupKind(
                        account, repo, version, group, kind, chain),
                      NoReply))

ClientGetGroupKindExamples ==
  /\ Idle
  /\ \E account \in Accounts, repo \in Repos, version \in Versions \ {<<>>},
        group \in Groups, kind \in Kinds, chain \in Direct(ExamplesResponses) :
       Finish([op |-> "GetGroupKindExamples", account |-> account, repo |-> repo,
               version |-> version, group |-> group, kind |-> kind,
               chain |-> chain],
              Handled(TRUE,
                      GetV1PackagesAccountRepositoryVersionResourcesGroupKindExamples(
                        account, repo, version, group, kind, chain),
                      NoReply))

\* Argument maps of the tool calls.
SizeArgs == {Absent, Str(<<"many">>)} \cup { Num(n) : n \in -1..MaxSize }
PageArgs == {Absent} \cup { Num(n) : n \in -1..MaxPage }
UseV1Args == {Absent, Bool(TRUE), Bool(FALSE)}

\* search_packages calls: every combination of the text arguments, and every
\* combination of the paging, public and version arguments.
SearchArgsSet ==
  [query : {Absent, Num(7)} \cup { Str(v) : v \in QueryVals \ {<<>>} },
   family : {Absent} \cup { Str(v) : v \in FamilyVals \ {<<>>} },
   package_type : {Absent} \cup { Str(v) : v \in PackageTypeVals \ {<<>>} },
   account_name : {Absent} \cup { Str(v) : v \in AccountNameVals \ {<<>>} },
   tier : {Absent} \cup { Str(v) : v \in TierVals \ {<<>>} },
   size : {Absent}, page : {Absent}, public : {Absent}, use_v1 : UseV1Args]
  \cup
  [query : {Absent}, family : {Absent}, package_type : {Absent},
   account_name : {Absent}, tier : {Absent},
   size : SizeArgs, page : PageArgs, public : {Absent}, use_v1 : UseV1Args]
  \cup
  [query : {Absent} \cup { Str(v) : v \in QueryVals \ {<<>>} },
   family : {Absent}, package_type : {Absent}, account_name : {Absent},
   tier : {Absent}, size : {Absent}, page : {Absent},
   public : {Absent, Bool(TRUE), Bool(FALSE), Str(<<"yes">>)},
   use_v1 : UseV1Args]

RepositoryArgsSet ==
  [account : {Absent, Num(7)} \cup { Str(v) : v \in Accounts },
   filter : {Absent} \cup { Str(v) : v \in RepoFilterVals \ {<<>>} },
   size : {Absent}, page : {Absent}, use_v1 : UseV1Args]
  \cup
  [account : { Str(v) : v \in Accounts }, filter : {Absent},
   size : SizeArgs, page : PageArgs, use_v1 : UseV1Args]

MetadataArgsSet ==
  [account : {Absent} \cup { Str(v) : v \in Accounts },
   repository : {Absent} \cup { Str(v) : v \in Repos },
   version : {Absent, Num(1)} \cup { Str(v) : v \in Versions },
   use_v1 : UseV1Args]

HandlerResponses(ok) == {Response(StatusOK, <<>>, ObjectBody(ok)), Denied}

ToolSearchPackages ==
  /\ Idle
  /\ \E args \in SearchArgsSet, chain \in Direct(HandlerResponses(SomeSearchResponse)) :
       Finish([op |-> "search_packages", server |-> "mcp-go", args |-> args,
               chain |-> chain],
              handleSearchPackages(args, chain))

ToolGetRepositories ==
  /\ Idle
  /\ \E args \in RepositoryArgsSet,
        chain \in Direct(HandlerResponses(SomeRepositoryResponse)) :
       Finish([op |-> "get_repositories", server |-> "mcp-go", args |-> args,
               chain |-> chain],
              handleGetRepositories(args, chain))

ToolGetPackageMetadata ==
  /\ Idle
  /\ \E args \in MetadataArgsSet,
        chain \in Direct(HandlerResponses(SomePackageMetadata)) :
       Finish([op |-> "get_package_metadata", server |-> "mcp-go", args |-> args,
               chain |-> chain],
              handleGetPackageMetadata(args, chain))

StdioSearchPackages ==
  /\ Idle
  /\ \E id \in IDs, args \in SearchArgsSet,
        chain \in Direct(HandlerResponses(SomeSearchResponse)) :
       Finish([op |-> "search_packages", server |-> "stdio", id |-> id,
               args |-> args, chain |-> chain],
              stdioHandleSearchPackages(id, args, chain))

StdioGetRepositories ==
  /\ Idle
  /\ \E id \in IDs, args \in RepositoryArgsSet,
        chain \in Direct(RepositoryResponses) :
       Finish([op |-> "get_repositories", server |-> "stdio", id |-> id,
               args |-> args, chain |-> chain],
              stdioHandleGetRepositories(id, args, chain))

\* The result is handed to the caller and the server is ready for the next
\* call; the client's fields stay as they are.
Return ==
  /\ ~Idle
  /\ call' = [op |-> "none"]
  /\ wire' = <<>>
  /\ result' = Handled(FALSE, NoOutcome, NoReply)
  /\ UNCHANGED <<BaseURL, Token, hostVars, raceVars>>

Next ==
  \/ Return
  \/ ClientSearchPackages
  \/ ClientGetRepositories
  \/ ClientGetPackageMetadata
  \/ ClientGetPackageAssets
  \/ ClientGetResources
  \/ ClientGetGroupKindComposition
  \/ ClientGetGroupKind
  \/ ClientGetGroupKindExamples
  \/ ToolSearchPackages
  \/ ToolGetRepositories
  \/ ToolGetPackageMetadata
  \/ StdioSearchPackages
  \/ StdioGetRepositories

Spec == Init /\ [][Next]_vars

\* --------------------------------------- credentials: start and reload
\* One well-formed call of every tool, and the same call without `account`.
FullArgs(name) ==
  CASE name = "search_packages" ->
         [query |-> Str(<<"aws", " ", "s3">>), family |-> Absent,
          package_type |-> Absent, account_name |-> Absent, tier |-> Absent,
          size |-> Absent, page |-> Absent, public |-> Absent, use_v1 |-> Absent]
    [] name = "get_package_metadata" ->
         [account |-> Str(<<"upbound">>), repository |-> Str(<<"provider-aws">>),
          version |-> Absent, use_v1 |-> Absent]
    [] name = "get_package_assets" ->
         [account |-> Str(<<"upbound">>), repository |-> Str(<<"provider-aws">>),
          version |-> Str(<<"v1.2.3">>), asset_type |-> Str(<<"docs">>)]
    [] name = "get_repositories" ->
         [account |-> Str(<<"upbound">>), filter |-> Absent, size |-> Absent,
          page |-> Absent, use_v1 |-> Absent]
    [] name = "get_package_version_resources" ->
         [account |-> Str(<<"upbound">>), repository_name |-> Str(<<"provider-aws">>),
          version |-> Str(<<"v1.2.3">>)]
    [] name = "get_package_version_composition_resources" ->
         [account |-> Str(<<"upbound">>), repository_name |-> Str(<<"provider-aws">>),
          version |-> Str(<<"v1.2.3">>), resource_group |-> Str(<<"aws.example">>),
          resource_kind |-> Str(<<"XBucket">>),
          composition_name |-> Str(<<"xbuckets">>)]
    [] name \in {"get_package_version_groupkind_resources",
                 "get_package_version_examples"} ->
         [account |-> Str(<<"upbound">>), repository_name |-> Str(<<"provider-aws">>),
          version |-> Str(<<"v1.2.3">>), resource_group |-> Str(<<"aws.example">>),
          resource_kind |-> Str(<<"XBucket">>)]
    [] OTHER -> [account |-> Absent]

ToolArgs(name) ==
  {FullArgs(name)} \cup
  {[FullArgs(name) EXCEPT ![k] = Absent] : k \in DOMAIN FullArgs(name) \cap {"account"}}

OkResponse(name) ==
  CASE name = "search_packages" ->
         Response(StatusOK, <<>>, ObjectBody(SomeSearchResponse))
    [] name = "get_package_metadata" ->
         Response(StatusOK, <<>>, ObjectBody(SomePackageMetadata))
    [] name = "get_package_assets" -> Response(StatusOK, <<>>, ObjectBody(SomeAsset))
    [] name = "get_repositories" ->
         Response(StatusOK, <<>>, ObjectBody(SomeRepositoryResponse))
    [] name = "get_package_version_examples" ->
         Response(StatusOK, <<>>, ObjectBody(SomeExamples))
    [] OTHER -> Response(StatusOK, <<>>, ObjectBody(SomePackageResources))

ToolResponses(name) == {OkResponse(name), Denied}

\* A tool call on the mcp-go based server.
McpToolCall ==
  /\ Idle
  /\ \E name \in ToolNames :
       \E args \in ToolArgs(name), chain \in Direct(ToolResponses(name)) :
         Finish([op |-> name, server |-> "mcp-go", args |-> args, chain |-> chain],
                CallTool(name, args, chain))

\* A tools/call request on the line-oriented server.
StdioToolCall ==
  /\ Idle
  /\ \E name \in StdioToolNames \cup {"no_such_tool"}, id \in IDs :
       \E args \in ToolArgs(name), chain \in Direct(ToolResponses(name)) :
         Finish([op |-> name, server |-> "stdio", id |-> id, args |-> args,
                 chain |-> chain],
                handleToolsCall(name, id, args, chain))

\* reload_auth on the mcp-go based server.
ReloadAuth ==
  /\ Idle
  /\ LET r == handleReloadAuth(configPath, files, BaseURL, Token)
     IN /\ BaseURL' = r.BaseURL
        /\ Token' = r.Token
        /\ call' = [op |-> "reload_auth", server |-> "mcp-go", id |-> <<1>>,
                    before |-> [BaseURL |-> BaseURL, Token |-> Token]]
        /\ result' = Handled(FALSE, NoOutcome, r.reply)
  /\ wire' = <<>>
  /\ UNCHANGED <<hostVars, raceVars>>

\* reload_auth on the line-oriented server.
StdioReloadAuth ==
  /\ Idle
  /\ \E id \in IDs :
       LET r == stdioHandleReloadAuth(id, configPath, files, BaseURL, Token)
       IN /\ BaseURL' = r.BaseURL
          /\ Token' = r.Token
          /\ call' = [op |-> "reload_auth", server |-> "stdio", id |-> id,
                      before |-> [BaseURL |-> BaseURL, Token |-> Token]]
          /\ result' = Handled(FALSE, NoOutcome, r.reply)
  /\ wire' = <<>>
  /\ UNCHANGED <<hostVars, raceVars>>

\* The manager's getters, called on their own.
ManagerGetCurrentToken ==
  /\ Idle
  /\ call' = [op |-> "GetCurrentToken", ret |-> GetCurrentToken(configPath, files)]
  /\ UNCHANGED <<BaseURL, Token, wire, result, hostVars, raceVars>>

ManagerGetCurrentServerURL ==
  /\ Idle
  /\ call' = [op |-> "GetCurrentServerURL",
              ret |-> GetCurrentServerURL(configPath, files)]
  /\ UNCHANGED <<BaseURL, Token, wire, result, hostVars, raceVars>>

\* The user logs in, logs out or switches the profile: the file the manager
\* reads changes under the running server.
EditConfig ==
  /\ Idle
  /\ \E c \in {DefaultConfig, OtherConfig} \ {files[configPath]} :
       files' = [files EXCEPT ![configPath] = c]
  /\ UNCHANGED <<BaseURL, Token, call, wire, result, env, configPath, raceVars>>

AuthInit == \E e \in Envs : \E fs \in FileSystemsOf(e) : Started(e, fs)

AuthNext ==
  \/ Return
  \/ EditConfig
  \/ ReloadAuth
  \/ StdioReloadAuth
  \/ ManagerGetCurrentToken
  \/ ManagerGetCurrentServerURL
  \/ McpToolCall
  \/ StdioToolCall

AuthSpec == AuthInit /\ [][AuthNext]_vars

----------------------------------------------------------------------------
\* reload_auth beside a tool call in flight.  The streamable HTTP server of
\* cmd/mcp-http serves each request in a goroutine of its own, and
\* Client.SetToken and Client.SetBaseURL write the two fields without a lock,
\* so a get_repositories call and a reload_auth call interleave at their
\* reads and writes of BaseURL and Token.  A read that races with a write is
\* modelled by its two outcomes, the old value and the new one, which are the
\* two orders of the read step and the write step.

\* The profiles the user switches between with `up profile use`.
RaceConfigs == {DefaultConfig, OtherConfig}

\* The base URL and token a server holds after loading configuration c.
CredentialsOf(c) == NewServer(HomeConfigPath(HomeDir), [p \in Paths |-> c])

RaceArgs == FullArgs("get_repositories")
RaceResponses ==
  {OkResponse("get_repositories"), Denied, Unauthorized, Failed, NetErr}

\* The call as GetRepositories runs it when BaseURL was read at url.Parse
\* (base) and Token is read at AddCookie, where the request is sent.
FlightHandled(args, chain, base) ==
  LET h == handleGetRepositories(args, chain)
      withBase(req) == [req EXCEPT !.base = base]
  IN [h EXCEPT !.out.req = withBase(@),
               !.out.sent = [i \in DOMAIN @ |-> withBase(@[i])]]

\* `up profile use`: the configuration file names another default profile.
\* The switch is taken between reloads, so that each reload reads one file.
SwitchProfile ==
  /\ reload.pc = "idle"
  /\ \E c \in RaceConfigs \ {files[configPath]} :
       files' = [files EXCEPT ![configPath] = c]
  /\ UNCHANGED <<BaseURL, Token, call, wire, result, env, configPath, raceVars>>

\* GetRepositories reads c.BaseURL to build the URL.
FlightParseURL ==
  /\ flight.pc = "idle"
  /\ flight' = [pc |-> "parsed", base |-> BaseURL]
  /\ UNCHANGED <<BaseURL, Token, call, wire, result, hostVars, reload>>

\* GetRepositories reads c.Token, sends the request and handles the answer.
FlightSend ==
  /\ flight.pc = "parsed"
  /\ \E t \in RaceResponses :
       LET h == FlightHandled(RaceArgs, <<t>>, flight.base)
       IN /\ wire' = h.out.sent
          /\ result' = h
  /\ flight' = [flight EXCEPT !.pc = "done"]
  /\ UNCHANGED <<BaseURL, Token, call, hostVars, reload>>

FlightReturn ==
  /\ flight.pc = "done"
  /\ flight' = NoFlight
  /\ wire' = <<>>
  /\ result' = Handled(FALSE, NoOutcome, NoReply)
  /\ UNCHANGED <<BaseURL, Token, call, hostVars, reload>>

\* handleReloadAuth loads the token and, when that succeeded, sets it.
ReloadSetToken ==
  /\ reload.pc = "idle"
  /\ LET tok == GetCurrentToken(configPath, files)
     IN IF tok.err = ""
          THEN /\ Token' = tok.token[1].AccessToken
               /\ reload' = [pc |-> "token set"]
          ELSE /\ Token' = Token
               /\ reload' = [pc |-> "done"]
  /\ UNCHANGED <<BaseURL, call, wire, result, hostVars, flight>>

\* handleReloadAuth loads the server URL and, when that succeeded, sets it.
ReloadSetBaseURL ==
  /\ reload.pc = "token set"
  /\ LET url == GetCurrentServerURL(configPath, files)
     IN BaseURL' = IF url.err = "" THEN url.url ELSE BaseURL
  /\ reload' = [pc |-> "done"]
  /\ UNCHANGED <<Token, call, wire, result, hostVars, flight>>

ReloadReturn ==
  /\ reload.pc = "done"
  /\ reload' = NoReload
  /\ UNCHANGED <<BaseURL, Token, call, wire, result, hostVars, flight>>

RaceInit ==
  \E c \in RaceConfigs :
    Started(DefaultEnv,
            [p \in Paths |-> IF p = HomeConfigPath(HomeDir) THEN c ELSE Missing])

RaceNext ==
  \/ SwitchProfile
  \/ FlightParseURL
  \/ FlightSend
  \/ FlightReturn
  \/ ReloadSetToken
  \/ ReloadSetBaseURL
  \/ ReloadReturn

RaceSpec == RaceInit /\ [][RaceNext]_vars

----------------------------------------------------------------------------
\* reload_auth after any change of the configuration file.

\* The user edits the file in any way, also into one that cannot be loaded.
RewriteConfig ==
  /\ Idle
  /\ \E c \in ConfigVals \ {files[configPath]} :
       files' = [files EXCEPT ![configPath] = c]
  /\ UNCHANGED <<BaseURL, Token, call, wire, result, env, configPath, raceVars>>

ReloadNext ==
  \/ Return
  \/ RewriteConfig
  \/ ReloadAuth
  \/ StdioReloadAuth

ReloadSpec == Init /\ [][ReloadNext]_vars

----------------------------------------------------------------------------
\* A client on its own: NewClient, then SetToken and SetBaseURL in any order.
\* call keeps the arguments the setters were given, in the order of the calls.
SetterTokens == {"", SessionToken, OtherToken}
SetterURLs == {<<>>, ApiURL, ExampleURL}

ClientInit ==
  /\ BaseURL = NewClient.BaseURL
  /\ Token = NewClient.Token
  /\ call = [op |-> "NewClient", tokens |-> <<>>, urls |-> <<>>]
  /\ wire = <<>>
  /\ result = Handled(FALSE, NoOutcome, NoReply)
  /\ env = DefaultEnv
  /\ files = [p \in Paths |-> Missing]
  /\ configPath = NewManager(DefaultEnv)
  /\ flight = NoFlight
  /\ reload = NoReload

ClientSetToken ==
  /\ Len(call.tokens) + Len(call.urls) < MaxSetterCalls
  /\ \E token \in SetterTokens :
       LET c == SetToken([NewClient EXCEPT !.BaseURL = BaseURL, !.Token = Token], token)
       IN /\ BaseURL' = c.BaseURL
          /\ Token' = c.Token
          /\ call' = [call EXCEPT !.op = "SetToken", !.tokens = Append(@, token)]
  /\ UNCHANGED <<wire, result, hostVars, raceVars>>

ClientSetBaseURL ==
  /\ Len(call.tokens) + Len(call.urls) < MaxSetterCalls
  /\ \E baseURL \in SetterURLs :
       LET c == SetBaseURL([NewClient EXCEPT !.BaseURL = BaseURL, !.Token = Token],
                           baseURL)
       IN /\ BaseURL' = c.BaseURL
          /\ Token' = c.Token
          /\ call' = [call EXCEPT !.op = "SetBaseURL", !.urls = Append(@, baseURL)]
  /\ UNCHANGED <<wire, result, hostVars, raceVars>>

ClientNext ==
  \/ ClientSetToken
  \/ ClientSetBaseURL

ClientSpec == ClientInit /\ [][ClientNext]_vars

----------------------------------------------------------------------------
\* Tool calls of both servers with arguments of every shape: complete,
\* lacking a required parameter, carrying it as a number, and with an asset
\* type the handler does not list; the backend answers directly or after a
\* redirect.

\* The parameters the tool schemas declare as required.
RequiredKeys(name) ==
  { k \in DOMAIN FullArgs(name) : FullArgs(name)[k] # Absent } \ {"query"}

AnyArgs(name) ==
  {FullArgs(name)}
  \cup { [FullArgs(name) EXCEPT ![k] = v] :
           k \in RequiredKeys(name), v \in {Absent, Num(7)} }
  \cup { [FullArgs(name) EXCEPT ![k] = Str(<<"bogus">>)] :
           k \in RequiredKeys(name) \cap {"asset_type"} }

AnyResponses(name) == {OkResponse(name), Denied, NetErr}

McpToolCallAnyArgs ==
  /\ Idle
  /\ \E name \in ToolNames :
       \E args \in AnyArgs(name), chain \in ChainsFor(Chains(AnyResponses(name))) :
         \E h \in {CallTool(name, args, chain)} :
           Finish([op |-> name, server |-> "mcp-go", id |-> <<1>>, args |-> args,
                   chain |-> chain], h)

StdioToolCallAnyArgs ==
  /\ Idle
  /\ \E name \in StdioToolNames, id \in IDs :
       \E args \in AnyArgs(name), chain \in ChainsFor(Chains(AnyResponses(name))) :
         \E h \in {handleToolsCall(name, id, args, chain)} :
           Finish([op |-> name, server |-> "stdio", id |-> id, args |-> args,
                   chain |-> chain], h)

ToolNext ==
  \/ Return
  \/ McpToolCallAnyArgs
  \/ StdioToolCallAnyArgs
  \/ ReloadAuth
  \/ StdioReloadAuth

ToolSpec == Init /\ [][ToolNext]_vars

----------------------------------------------------------------------------
\* The line-oriented server: one request line, from the read to the reply.

\* What handling one line leaves behind: the client's fields, the handler the
\* dispatch chose ("" when it chose none), and the outcome and reply.
Processed(base, token, handler, h) ==
  [BaseURL |-> base, Token |-> token, handler |-> handler, h |-> h]

ProcessedReload(r) ==
  Processed(r.BaseURL, r.Token, "reload_auth", Handled(FALSE, NoOutcome, r.reply))

NoArgs == [k \in {} |-> Absent]

\* json.Unmarshal of the request's params into ToolCallParams or
\* ResourceReadParams: absent params and params that are no object fail,
\* null leaves the zero value.
BadParams(kind) == [kind |-> kind, name |-> "", uri |-> "", args |-> NoArgs]
ToolParams(name, args) == [kind |-> "object", name |-> name, uri |-> "", args |-> args]
ResourceParams(uri) == [kind |-> "object", name |-> "", uri |-> uri, args |-> NoArgs]
UnmarshalFails(params) == params.kind \in {"absent", "string"}

\* Server.handleReadPackages: the default search of the packages resource.
SearchReply(id, out) ==
  IF out.err # NoErr
    THEN Handled(TRUE, out, sendError("search_failed", out.err.kind, id))
    ELSE Handled(TRUE, out, sendResponse("search results"))

handleReadPackages(id, chain) ==
  SearchReply(id,
              SearchPackages([Query |-> <<>>, Family |-> <<>>, PackageType |-> <<>>,
                              AccountName |-> <<>>, Tier |-> <<"official">>,
                              Public |-> <<TRUE>>, Size |-> 20, Page |-> 0,
                              UseV1 |-> FALSE, Starred |-> <<>>, Type |-> <<>>],
                             chain))

\* Server.handleResourcesRead.
handleResourcesRead(req, chain, base, token) ==
  IF UnmarshalFails(req.params)
    THEN Processed(base, token, "",
                   Handled(FALSE, NoOutcome,
                           sendError("invalid_params",
                                     "Invalid resource read parameters", req.id)))
  ELSE CASE req.params.uri = "marketplace://packages" ->
              Processed(base, token, "handleReadPackages",
                        handleReadPackages(req.id, chain))
         [] req.params.uri = "marketplace://repositories" ->
              Processed(base, token, "handleReadRepositories",
                        Handled(FALSE, NoOutcome, sendResponse("use get_repositories")))
         [] OTHER ->
              Processed(base, token, "",
                        Handled(FALSE, NoOutcome,
                                sendError("unknown_resource", "Unknown resource",
                                          req.id)))

\* Server.handleToolsCall with the decoding of its params and reload_auth.
handleToolsCallRequest(req, chain, m, fs, base, token) ==
  IF UnmarshalFails(req.params)
    THEN Processed(base, token, "",
                   Handled(FALSE, NoOutcome,
                           sendError("invalid_params",
                                     "Invalid tool call parameters", req.id)))
  ELSE IF req.params.name = "reload_auth"
    THEN ProcessedReload(stdioHandleReloadAuth(req.id, m, fs, base, token))
  ELSE Processed(base, token,
                 IF req.params.name \in StdioToolNames THEN req.params.name ELSE "",
                 handleToolsCall(req.params.name, req.id, req.params.args, chain))

\* Server.processRequest.
processRequest(req, chain, m, fs, base, token) ==
  CASE req.method = "initialize" ->
         Processed(base, token, "handleInitialize",
                   Handled(FALSE, NoOutcome, sendResponse("initialize")))
    [] req.method = "tools/list" ->
         Processed(base, token, "handleToolsList",
                   Handled(FALSE, NoOutcome, sendResponse("tools")))
    [] req.method = "tools/call" ->
         handleToolsCallRequest(req, chain, m, fs, base, token)
    [] req.method = "resources/list" ->
         Processed(base, token, "handleResourcesList",
                   Handled(FALSE, NoOutcome, sendResponse("resources")))
    [] req.method = "resources/read" ->
         handleResourcesRead(req, chain, base, token)
    [] OTHER ->
         Processed(base, token, "",
                   Handled(FALSE, NoOutcome,
                           sendError("method_not_found", "Unknown method", req.id)))

\* Server.handleRequest after a line was read: a line of white space and a
\* line that is no JSON request are passed over without a reply.
handleRequest(line, chain, m, fs, base, token) ==
  IF line.kind \in {"blank", "malformed"}
    THEN Processed(base, token, "", Handled(FALSE, NoOutcome, NoReply))
    ELSE processRequest(line, chain, m, fs, base, token)

\* The lines a client may write.
Line(kind, id, method, params) ==
  [kind |-> kind, id |-> id, method |-> method, params |-> params]
Methods ==
  {"initialize", "tools/list", "tools/call", "resources/list", "resources/read"}
PlainLines ==
  {Line("blank", <<>>, "", BadParams("absent")),
   Line("malformed", <<>>, "", BadParams("absent"))}
  \cup { Line("request", id, method, params) :
           id \in IDs, method \in Methods \cup {"no/such"},
           params \in {BadParams("absent"), BadParams("string"), BadParams("null")} }
ResourceLines ==
  { Line("request", id, "resources/read", ResourceParams(uri)) :
      id \in IDs,
      uri \in {"marketplace://packages", "marketplace://repositories",
               "marketplace://other"} }
StdioCallNames == StdioToolNames \cup {"reload_auth", "no_such_tool"}

\* The loop reads a line and handles it to the end.
Served(line, chain) ==
  \E r \in {handleRequest(line, chain, configPath, files, BaseURL, Token)} :
    /\ call' = [op |-> "handleRequest", line |-> line, chain |-> chain,
                handler |-> r.handler,
                before |-> [BaseURL |-> BaseURL, Token |-> Token]]
    /\ wire' = r.h.out.sent
    /\ result' = r.h
    /\ BaseURL' = r.BaseURL
    /\ Token' = r.Token
    /\ UNCHANGED <<hostVars, raceVars>>

\* Every line with the answers the backend may give to the call it makes.
StdioInputs ==
  { [line |-> line, chain |-> <<NetErr>>] : line \in PlainLines }
  \cup { [line |-> line, chain |-> chain] :
           line \in ResourceLines,
           chain \in Direct(ToolResponses("search_packages")) }
  \cup UNION { { [line |-> Line("request", id, "tools/call", ToolParams(name, args)),
                  chain |-> chain] :
                   id \in IDs, args \in ToolArgs(name),
                   chain \in Direct(ToolResponses(name)) } :
               name \in StdioCallNames }

ServeLine ==
  /\ Idle
  /\ \E input \in StdioInputs : Served(input.line, input.chain)

\* The names getErrorCode knows, and names it does not.
KnownErrorNames ==
  {"parse_error", "invalid_request", "method_not_found", "invalid_params",
   "internal_error", "unknown_tool", "auth_required", "auth_failed",
   "search_failed", "metadata_failed", "assets_failed", "repositories_failed",
   "unknown_resource"}
ErrorNames == KnownErrorNames \cup {"", "timeout", "PARSE_ERROR"}

\* A handler reports an error under any name.
SendError ==
  /\ Idle
  /\ \E code \in ErrorNames, id \in IDs :
       /\ call' = [op |-> "sendError", code |-> code, id |-> id]
       /\ result' = Handled(FALSE, NoOutcome, sendError(code, "failed", id))
  /\ wire' = <<>>
  /\ UNCHANGED <<BaseURL, Token, hostVars, raceVars>>

StdioNext ==
  \/ Return
  \/ SendError
  \/ ServeLine

StdioSpec == Init /\ [][StdioNext]_vars

----------------------------------------------------------------------------
\* The request loop of the line-oriented server: Server.Start reads the
\* lines a client writes to its standard input until the input ends or the
\* context is cancelled.

\* The lines the client writes here: white space, text that is no JSON, an
\* unknown method, and a tool call that reaches the backend.
LoopLines ==
  << Line("blank", <<>>, "", BadParams("absent")),
     Line("malformed", <<>>, "", BadParams("absent")),
     Line("request", <<1>>, "no/such", BadParams("absent")),
     Line("request", <<1>>, "tools/call",
          ToolParams("get_repositories", FullArgs("get_repositories"))) >>

\* main of cmd/mcp-server: client, server and context are built and Start
\* is called; nothing has been written to the input yet.
LoopInit ==
  /\ env = DefaultEnv
  /\ files = [p \in Paths |-> IF p = HomeConfigPath(HomeDir) THEN DefaultConfig
                                                             ELSE Missing]
  /\ configPath = NewManager(env)
  /\ BaseURL = NewServer(configPath, files).BaseURL
  /\ Token = NewServer(configPath, files).Token
  /\ call = [op |-> "Start", pc |-> "select", ctx |-> "live", stdin |-> <<>>,
             open |-> TRUE, written |-> 0, served |-> 0, last |-> 0,
             err |-> "", ret |-> ""]
  /\ wire = <<>>
  /\ result = Handled(FALSE, NoOutcome, NoReply)
  /\ flight = NoFlight
  /\ reload = NoReload

\* The client writes one more line, or closes its end of the pipe.
ClientWrites ==
  /\ call.open
  /\ call.written < MaxLines
  /\ \E i \in 1..Len(LoopLines) :
       call' = [call EXCEPT !.written = @ + 1,
                            !.stdin = Append(@, [seq |-> call.written + 1,
                                                 line |-> LoopLines[i]])]
  /\ UNCHANGED <<BaseURL, Token, wire, result, hostVars, raceVars>>

ClientCloses ==
  /\ call.open
  /\ call' = [call EXCEPT !.open = FALSE]
  /\ UNCHANGED <<BaseURL, Token, wire, result, hostVars, raceVars>>

\* The signal handler of main: SIGINT or SIGTERM cancels the context.
Cancel ==
  /\ call.ctx = "live"
  /\ call.pc # "returned"
  /\ call' = [call EXCEPT !.ctx = "cancelled"]
  /\ UNCHANGED <<BaseURL, Token, wire, result, hostVars, raceVars>>

\* Server.Start, the select: the context is looked at between two requests.
StartSelect ==
  /\ call.pc = "select"
  /\ call' = IF call.ctx = "cancelled"
               THEN [call EXCEPT !.pc = "returned", !.ret = "context canceled"]
               ELSE [call EXCEPT !.pc = "read"]
  /\ UNCHANGED <<BaseURL, Token, wire, result, hostVars, raceVars>>

\* Server.handleRequest: ReadString hands over the next complete line and
\* the line is handled to the end; an error of the handling (the response
\* could not be written) is logged by Start and the loop goes on.
StartHandleRequest ==
  /\ call.pc = "read"
  /\ call.stdin # <<>>
  /\ \E chain \in Direct(ToolResponses("get_repositories")), failed \in BOOLEAN,
        head \in {Head(call.stdin)} :
       \E r \in {handleRequest(head.line, chain, configPath, files, BaseURL, Token)} :
          /\ failed => r.h.reply.kind # "none"
          /\ call' = [call EXCEPT !.pc = "select", !.stdin = Tail(@),
                                  !.served = @ + 1, !.last = head.seq,
                                  !.err = IF failed THEN "write failed" ELSE ""]
          /\ wire' = r.h.out.sent
          /\ result' = IF failed THEN Handled(r.h.called, r.h.out, NoReply) ELSE r.h
          /\ BaseURL' = r.BaseURL
          /\ Token' = r.Token
  /\ UNCHANGED <<hostVars, raceVars>>

\* Server.handleRequest: ReadString meets the end of the input; Start
\* returns nil.
StartEOF ==
  /\ call.pc = "read"
  /\ call.stdin = <<>>
  /\ ~call.open
  /\ call' = [call EXCEPT !.pc = "returned", !.ret = "nil"]
  /\ UNCHANGED <<BaseURL, Token, wire, result, hostVars, raceVars>>

LoopNext ==
  \/ ClientWrites
  \/ ClientCloses
  \/ Cancel
  \/ StartSelect
  \/ StartHandleRequest
  \/ StartEOF

\* The server's own steps are taken whenever they can be; the client and
\* the signal are under no obligation.
LoopSpec ==
  /\ LoopInit
  /\ [][LoopNext]_vars
  /\ WF_vars(StartSelect)
  /\ WF_vars(StartHandleRequest)
  /\ WF_vars(StartEOF)

----------------------------------------------------------------------------
\* The HTTP proxy in front of the line-oriented server: Proxy.Forward, called
\* by the goroutines of concurrent HTTP requests, writes one request line to
\* the subprocess and reads its standard output once.

\* The goroutines that call Forward.
Callers == {1, 2}

\* The responses of the subprocess are counted in units of the read buffer's
\* grain: make([]byte, 4096) holds BufUnits of them, a response is 1..MaxResp
\* units long.
Units(id, n) == [k \in 1..n |-> [id |-> id, k |-> k, n |-> n]]
Take(q, n) == SubSeq(q, 1, IF Len(q) < n THEN Len(q) ELSE n)
Drop(q, n) == SubSeq(q, (IF Len(q) < n THEN Len(q) ELSE n) + 1, Len(q))

\* NewProxy: the subprocess runs, both pipes are empty, reqID is zero.
ProxyInit ==
  /\ call = [op |-> "Forward", mu |-> 0, reqID |-> 0,
             pc |-> [c \in Callers |-> "idle"],
             id |-> [c \in Callers |-> 0],
             got |-> [c \in Callers |-> <<>>],
             issued |-> <<>>, stdin |-> <<>>, stdout |-> <<>>]
  /\ BaseURL = NewClient.BaseURL
  /\ Token = NewClient.Token
  /\ wire = <<>>
  /\ result = Handled(FALSE, NoOutcome, NoReply)
  /\ env = DefaultEnv
  /\ files = [p \in Paths |-> Missing]
  /\ configPath = NewManager(DefaultEnv)
  /\ flight = NoFlight
  /\ reload = NoReload

\* Proxy.Forward: p.mu.Lock() and p.reqID++.
ForwardLock(c) ==
  /\ call.pc[c] \in {"idle", "returned"}
  /\ call.mu = 0
  /\ call.reqID < MaxForwards
  /\ call' = [call EXCEPT !.mu = c, !.reqID = @ + 1, !.pc[c] = "locked",
                          !.id[c] = call.reqID + 1, !.got[c] = <<>>,
                          !.issued = Append(@, call.reqID + 1)]
  /\ UNCHANGED <<BaseURL, Token, wire, result, hostVars, raceVars>>

\* Proxy.Forward: the request is marshalled and written to the pipe as one
\* line.
ForwardWrite(c) ==
  /\ call.pc[c] = "locked"
  /\ call' = [call EXCEPT !.pc[c] = "written", !.stdin = Append(@, call.id[c])]
  /\ UNCHANGED <<BaseURL, Token, wire, result, hostVars, raceVars>>

\* The subprocess reads a request line and writes its response, of any
\* length, with the id of the request.
SubprocessResponds ==
  /\ call.stdin # <<>>
  /\ \E n \in 1..MaxResp :
       call' = [call EXCEPT !.stdin = Tail(@),
                            !.stdout = @ \o Units(Head(call.stdin), n)]
  /\ UNCHANGED <<BaseURL, Token, wire, result, hostVars, raceVars>>

\* Proxy.Forward: one Read of the pipe into a buffer of 4096 bytes returns
\* what is there, up to the size of the buffer; the deferred Unlock runs.
ForwardRead(c) ==
  /\ call.pc[c] = "written"
  /\ call.stdout # <<>>
  /\ call' = [call EXCEPT !.pc[c] = "returned", !.mu = 0,
                          !.got[c] = Take(call.stdout, BufUnits),
                          !.stdout = Drop(@, BufUnits)]
  /\ UNCHANGED <<BaseURL, Token, wire, result, hostVars, raceVars>>

ProxyNext ==
  \/ \E c \in Callers : ForwardLock(c)
  \/ \E c \in Callers : ForwardWrite(c)
  \/ \E c \in Callers : ForwardRead(c)
  \/ SubprocessResponds

\* A caller that holds the lock goes on, and the subprocess answers what it
\* was sent.
ProxySpec ==
  /\ ProxyInit
  /\ [][ProxyNext]_vars
  /\ \A c \in Callers : WF_vars(ForwardWrite(c)) /\ WF_vars(ForwardRead(c))
  /\ WF_vars(SubprocessResponds)

\* ------------------------------------------------------------ readings
\* The query of the request the last call built, as the backend decodes it.
SentPairs == QueryPairs(result.out.req.rawQuery)
SentQuery == ParseQuery(result.out.req.rawQuery)
CountIn(pairs, k) == Cardinality({ i \in 1..Len(pairs) : pairs[i].k = k })
Transmitted == Len(wire) >= 1

\* The five filter fields of SearchParams with their parameter names, in the
\* order the translator handles them.
FilterFields ==
  << <<"Query", "query">>, <<"Family", "family">>,
     <<"PackageType", "packageType">>, <<"AccountName", "accountName">>,
     <<"Tier", "tier">> >>

IsClientSearch == call.op = "SearchPackages"
IsClientRepositories == call.op = "GetRepositories"
IsClientMetadata == call.op = "GetPackageMetadata"
IsClientAssets == call.op = "GetPackageAssets"
IsClientResource ==
  call.op \in {"GetResources", "GetGroupKindComposition", "GetGroupKind",
               "GetGroupKindExamples"}
IsClientOp ==
  IsClientSearch \/ IsClientRepositories \/ IsClientMetadata \/ IsClientAssets
    \/ IsClientResource
\* The response the call received: the answer to the last request sent.
FinalResponse == call.chain[Len(wire)]
Answered == Transmitted /\ ~FinalResponse.neterr
IsToolCall == call.op \in ToolNames
\* The file the manager reads, and whether it names a default profile it holds.
CurrentFile == files[configPath]
HasDefaultProfile ==
  /\ CurrentFile.state = "ok"
  /\ CurrentFile.Default # ""
  /\ CurrentFile.Default \in DOMAIN CurrentFile.Profiles
DefaultProfile == CurrentFile.Profiles[CurrentFile.Default]
IsToolSearch == call.op = "search_packages"
IsToolRepositories == call.op = "get_repositories"
IsToolMetadata == call.op = "get_package_metadata"
IsDecimal(s) == s # <<>> /\ \A i \in 1..Len(s) : \E d \in 1..10 : Digits[d] = s[i]

\* ------------------------------------------------------------ claims

\* C1: SearchPackages with UseV1 = true puts every non-empty filter field
\* (Query, Family, PackageType, AccountName, Tier) into the query as its own
\* parameter whose decoded value equals the input, leaves every empty field
\* out, and emits no `filter` parameter.
C1_V1NamedParameters ==
  (IsClientSearch /\ call.params.UseV1) =>
    LET pairs == SentPairs
        q == SentQuery
    IN /\ \A i \in 1..Len(FilterFields) :
            LET value == call.params[FilterFields[i][1]]
                name == FilterFields[i][2]
            IN IF value # <<>>
                 THEN /\ name \in DOMAIN q
                      /\ q[name] = value
                      /\ CountIn(pairs, name) = 1
                 ELSE name \notin DOMAIN q
       /\ "filter" \notin DOMAIN q

C1_Witness ==
  /\ IsClientSearch /\ call.params.UseV1 /\ Transmitted
  /\ \A i \in 1..Len(FilterFields) : call.params[FilterFields[i][1]] # <<>>
  /\ SentQuery["family"] = <<"fam", "&", "x">>
  /\ SentQuery["tier"] = <<"t", "%", "+">>

\* C2: SearchPackages with UseV1 = false emits exactly one `filter`
\* parameter when some filter field is non-empty, holding only the clause
\* field = 'value' of the last non-empty field in the order query, family,
\* packageType, accountName, tier; none of the v1 parameter names is emitted,
\* and with all five fields empty there is no `filter` parameter.
C2_V2LastClauseWins ==
  (IsClientSearch /\ ~call.params.UseV1) =>
    LET nonEmpty == { i \in 1..Len(FilterFields) :
                        call.params[FilterFields[i][1]] # <<>> }
        pairs == SentPairs
        q == SentQuery
    IN /\ \A i \in 1..Len(FilterFields) : FilterFields[i][2] \notin DOMAIN q
       /\ IF nonEmpty = {} THEN "filter" \notin DOMAIN q
          ELSE LET last == CHOOSE i \in nonEmpty : \A j \in nonEmpty : j <= i
               IN /\ CountIn(pairs, "filter") = 1
                  /\ q["filter"] =
                       <<FilterFields[last][2], " ", "=", " ", "'">>
                         \o call.params[FilterFields[last][1]] \o <<"'">>

C2_Witness ==
  /\ IsClientSearch /\ ~call.params.UseV1 /\ Transmitted
  /\ call.params.Query # <<>> /\ call.params.Family # <<>>
  /\ call.params.Tier # <<>>
  /\ SentQuery["filter"] = <<"tier", " ", "=", " ", "'", "t", "%", "+", "'">>

\* C3: the endpoint path depends only on the legacy flag: SearchPackages
\* asks /v1/search iff UseV1 and /v2/search otherwise, GetRepositories asks
\* /v1/repositories/{account} iff UseV1 and /v2/repositories/{account}
\* otherwise, whatever the other query fields are.
C3_PathByLegacyFlag ==
  /\ IsClientSearch =>
       result.out.req.path =
         (IF call.params.UseV1 THEN <<"/v1/search">> ELSE <<"/v2/search">>)
  /\ IsClientRepositories =>
       result.out.req.path =
         (IF call.params.UseV1 THEN <<"/v1/repositories/">> \o call.account
          ELSE <<"/v2/repositories/">> \o call.account)

C3_Witness ==
  /\ IsClientRepositories /\ call.params.UseV1 /\ Transmitted
  /\ call.params.Filter # <<>> /\ call.params.Size > 0
  /\ result.out.req.path = <<"/v1/repositories/", "upbound">>

\* C4: get_package_metadata uses the v1 API exactly when use_v1 is true:
\* with use_v1 false (or absent) the request goes to the /v2/packageMetadata
\* path, whether or not a version is supplied.
C4_MetadataV1OnlyWhenAsked ==
  /\ (IsToolMetadata /\ Transmitted) =>
       (result.out.req.path[1] = "/v1/packageMetadata/"
          <=> (call.args["use_v1"].t = "bool" /\ call.args["use_v1"].b))
  /\ (IsClientMetadata /\ Transmitted) =>
       (result.out.req.path[1] = "/v1/packageMetadata/" <=> call.useV1)

\* C5: GetRepositories passes a non-empty Filter on unchanged as the
\* `filter` parameter when UseV1 is false, emits no `filter` parameter when
\* UseV1 is true whatever the Filter, and reports no error for the dropped
\* filter.
C5_RepositoryFilterV2Only ==
  IsClientRepositories =>
    LET q == SentQuery
        pairs == SentPairs
    IN /\ (~call.params.UseV1 /\ call.params.Filter # <<>>) =>
            /\ "filter" \in DOMAIN q
            /\ q["filter"] = call.params.Filter
            /\ CountIn(pairs, "filter") = 1
       /\ call.params.UseV1 => "filter" \notin DOMAIN q
       /\ (call.params.UseV1 /\ Transmitted /\ ~call.chain[1].neterr
             /\ call.chain[1].status = StatusOK
             /\ call.chain[1].body.json = "object") =>
            (result.out.err = NoErr /\ result.out.val # <<>>)

C5_Witness ==
  /\ IsClientRepositories /\ call.params.UseV1 /\ call.params.Filter # <<>>
  /\ Transmitted /\ result.out.err = NoErr
  /\ "filter" \notin DOMAIN SentQuery

\* C6: in SearchPackages and in GetRepositories `size` is emitted, as a
\* decimal integer equal to Size, iff Size > 0, and `page` iff Page > 0; a
\* zero or negative Size or Page produces no parameter.
C6_SizePageWhenPositive ==
  (IsClientSearch \/ IsClientRepositories) =>
    LET q == SentQuery
    IN /\ "size" \in DOMAIN q <=> call.params.Size > 0
       /\ "page" \in DOMAIN q <=> call.params.Page > 0
       /\ call.params.Size > 0 =>
            (IsDecimal(q["size"]) /\ Atoi(q["size"]) = call.params.Size)
       /\ call.params.Page > 0 =>
            (IsDecimal(q["page"]) /\ Atoi(q["page"]) = call.params.Page)

C6_Witness ==
  /\ IsClientRepositories /\ Transmitted
  /\ call.params.Size = DefaultSize /\ call.params.Page = 0
  /\ SentQuery["size"] = <<"2", "0">>
  /\ "page" \notin DOMAIN SentQuery

\* C7: the `public` filter is tri-state end to end: a search_packages call
\* that supplies public as a boolean sends public=true or public=false
\* respectively, in v1 and in v2 mode; when the argument is absent or not a
\* boolean no `public` parameter is sent.
C7_PublicTriState ==
  IsToolSearch =>
    LET q == SentQuery
        a == call.args["public"]
    IN IF a.t = "bool"
         THEN /\ "public" \in DOMAIN q
              /\ q["public"] = (IF a.b THEN <<"true">> ELSE <<"false">>)
         ELSE "public" \notin DOMAIN q

C7_Witness ==
  /\ IsToolSearch /\ call.server = "mcp-go" /\ Transmitted
  /\ call.args["public"].t = "bool" /\ ~call.args["public"].b
  /\ call.args["use_v1"].t = "bool" /\ call.args["use_v1"].b
  /\ SentQuery["public"] = <<"false">>

\* C8: two SearchParams that differ only in UseV1 render the same `public`,
\* `size`, `page`, `starred` and `type` parameters; a non-empty Type is always
\* the bare parameter type=<value> and never part of the `filter` expression.
C8_VersionIndependentParameters ==
  IsClientSearch =>
    LET q == SentQuery
        other == ParseQuery(Encode(SearchValues(
                   [call.params EXCEPT !.UseV1 = ~call.params.UseV1])))
    IN /\ \A k \in {"public", "size", "page", "starred", "type"} :
            /\ k \in DOMAIN q <=> k \in DOMAIN other
            /\ k \in DOMAIN q => q[k] = other[k]
       /\ call.params.Type # <<>> =>
            /\ "type" \in DOMAIN q
            /\ q["type"] = call.params.Type
            /\ "filter" \in DOMAIN q => q["filter"][1] # "type"

C8_Witness ==
  /\ IsClientSearch /\ ~call.params.UseV1 /\ Transmitted
  /\ call.params.Type # <<>> /\ call.params.Tier # <<>>
  /\ call.params.Starred = <<TRUE>> /\ call.params.Public = <<FALSE>>
  /\ call.params.Size > 0 /\ call.params.Page > 0
  /\ SentQuery["type"] = call.params.Type
  /\ SentQuery["filter"][1] = "tier"

\* C9: the page-size default 20 and the page-index default 0 are applied by
\* the tool handler: a search_packages or get_repositories call without size
\* sends size=20, a call without page sends no page parameter, and the
\* translator adds no default when given Size = 0.
C9_HandlerAppliesDefaults ==
  /\ ((IsToolSearch \/ IsToolRepositories) /\ Transmitted) =>
       LET q == SentQuery
       IN /\ call.args["size"].t = "absent" =>
               ("size" \in DOMAIN q /\ q["size"] = <<"2", "0">>)
          /\ call.args["page"].t = "absent" => "page" \notin DOMAIN q
  /\ ((IsClientSearch \/ IsClientRepositories) /\ call.params.Size = 0) =>
       "size" \notin DOMAIN SentQuery

\* C10: when the backend answers the asset request with 307 and a Location
\* header, GetPackageAssets returns an AssetResponse whose URL is that
\* Location (Content and Type empty), without following the redirect and
\* without reading a body.
C10_RedirectReturnsLocation ==
  (IsClientAssets /\ Transmitted
     /\ call.chain[1].status = StatusTemporaryRedirect
     /\ call.chain[1].location # <<>>) =>
    /\ result.out.err = NoErr
    /\ result.out.val =
         << [URL |-> call.chain[1].location, Content |-> <<>>, Type |-> <<>>] >>
    /\ Len(wire) = 1
    /\ ~result.out.bodyRead

C12_AccountsFilled ==
  (IsClientRepositories /\ Answered /\ FinalResponse.status = StatusOK
     /\ FinalResponse.body.json = "object") =>
    /\ result.out.err = NoErr
    /\ Len(result.out.val) = 1
    /\ LET got == result.out.val[1].Repositories
           sent == FinalResponse.body.val.Repositories
       IN /\ Len(got) = Len(sent)
          /\ \A i \in 1..Len(sent) :
               /\ call.account # <<>> => got[i].Account # <<>>
               /\ sent[i].Account = <<>> => got[i].Account = call.account
               /\ sent[i].Account # <<>> => got[i].Account = sent[i].Account
               /\ got[i].Name = sent[i].Name

C12_Witness ==
  /\ IsClientRepositories /\ Answered /\ FinalResponse.status = StatusOK
  /\ call.account = <<"upbound">>
  /\ FinalResponse.body.json = "object"
  /\ FinalResponse.body.val.Repositories[1].Account = <<>>
  /\ result.out.val[1].Repositories[1].Account = <<"upbound">>
  /\ result.out.val[1].Repositories[2].Account = <<"other">>

\* C13: on GetRepositories and on the four /v1/packages/.../resources calls
\* a 401 or 403 response yields the error "authentication required for this
\* endpoint", never the "API request failed with status" error: the check
\* comes before the generic one (the body is not read) and no value is
\* returned; the line-oriented get_repositories handler answers such a call
\* with the auth_required error code.
C13_AuthRequiredOnRepositoryAndResources ==
  /\ ((IsClientRepositories \/ IsClientResource) /\ Answered
        /\ FinalResponse.status \in {StatusUnauthorized, StatusForbidden}) =>
       /\ result.out.err = AuthRequiredErr
       /\ result.out.err.kind # "API request failed with status"
       /\ result.out.val = <<>>
       /\ ~result.out.bodyRead
  /\ (IsToolRepositories /\ call.server = "stdio" /\ Answered
        /\ FinalResponse.status \in {StatusUnauthorized, StatusForbidden}) =>
       /\ result.out.err = AuthRequiredErr
       /\ call.id # <<>> => result.reply.code = getErrorCode("auth_required")

C13_Witness ==
  /\ call.op = "GetGroupKindComposition" /\ Answered
  /\ FinalResponse.status = StatusForbidden
  /\ result.out.err = AuthRequiredErr
  /\ result.out.val = <<>>

\* C14: every client operation, SearchPackages, GetPackageMetadata and
\* GetPackageAssets included, reports a 401 or 403 response as the
\* authentication-required error and not as the generic failure that carries
\* the status code.
C14_AuthRequiredOnEveryOperation ==
  (IsClientOp /\ Answered
     /\ FinalResponse.status \in {StatusUnauthorized, StatusForbidden}) =>
    result.out.err = AuthRequiredErr

C16_ServerURLFromDomain ==
  (call.op = "GetCurrentServerURL" /\ HasDefaultProfile) =>
    LET d == DefaultProfile.Domain
        again == GetCurrentServerURL(
                   configPath,
                   [files EXCEPT ![configPath] =
                      Config("p", OneProfile("p", "s", call.ret.url))])
    IN /\ d = <<>> =>
            call.ret = [url |-> <<"https", ":", "//", "api.", "upbound.io">>,
                        err |-> ""]
       /\ d = <<"example.com">> =>
            call.ret = [url |-> <<"https", ":", "//", "api.", "example.com">>,
                        err |-> ""]
       /\ call.ret.err = "" => again = call.ret

\* C17: GetCurrentToken returns the session of the profile the default
\* profile name points to, and an error with no token when the
\* configuration file is missing, unreadable or not JSON, when the default
\* profile name is empty or names no profile, or when the session is empty;
\* a returned token is never empty.
C17_TokenOfDefaultProfile ==
  call.op = "GetCurrentToken" =>
    IF HasDefaultProfile /\ DefaultProfile.Session # ""
      THEN /\ call.ret.err = ""
           /\ Len(call.ret.token) = 1
           /\ call.ret.token[1].AccessToken = DefaultProfile.Session
           /\ call.ret.token[1].AccessToken # ""
      ELSE /\ call.ret.err # ""
           /\ call.ret.token = <<>>

C17_Witness ==
  /\ call.op = "GetCurrentToken"
  /\ CurrentFile.state = "ok" /\ CurrentFile.Default = "team-b"
  /\ DOMAIN CurrentFile.Profiles = {"team-a", "team-b"}
  /\ call.ret.err = ""
  /\ call.ret.token[1].AccessToken = "sid-2"

\* C18: the configuration file is the one UP_CONFIG_PATH names when that is
\* set (whether or not the file exists), else /mcp/.up/config.json when that
\* file exists, else <home>/.up/config.json; what the manager loads comes
\* from that file and from no location of lower priority.
C18_ConfigPathPriority ==
  LET expected ==
        IF env.UP_CONFIG_PATH # <<>> THEN env.UP_CONFIG_PATH
        ELSE IF env.mounted THEN <<"/mcp/.up/config.json">>
        ELSE IF env.HOME # <<>> THEN env.HOME \o <<"/", ".up", "/", "config.json">>
        ELSE configPath
      f == files[expected]
  IN /\ configPath = expected
     /\ (env.UP_CONFIG_PATH = <<>> /\ ~env.mounted) =>
          configPath \notin {EnvPath, MountedPath}
     /\ (call.op = "GetCurrentToken" /\ call.ret.err = "") =>
          /\ f.state = "ok"
          /\ call.ret.token[1].AccessToken = f.Profiles[f.Default].Session
     /\ (call.op = "GetCurrentToken" /\ f.state = "missing") => call.ret.err # ""

C18_Witness ==
  /\ env.UP_CONFIG_PATH = EnvPath /\ env.mounted
  /\ files[EnvPath].state = "missing"
  /\ files[MountedPath] = DecoyConfig
  /\ configPath = EnvPath
  /\ call.op = "GetCurrentToken" /\ call.ret.err # ""

\* C19: the client's Token and BaseURL change only on reload_auth: every
\* other step, a tool call of either server that succeeds, fails validation
\* or is answered with 401 or 403 included, and a change of the
\* configuration file included, leaves both as they were.
C19_CredentialsChangeOnlyOnReload ==
  [][call'.op # "reload_auth" => (BaseURL' = BaseURL /\ Token' = Token)]_vars

\* A tool call was refused with 403 while the configuration file holds
\* another token than the client, and the client still holds its own.
C19_Witness ==
  /\ IsToolCall /\ Answered
  /\ FinalResponse.status = StatusForbidden
  /\ HasDefaultProfile /\ DefaultProfile.Session = "sid-2"
  /\ Token = "sid-1"
  /\ wire[1].cookies["SID"] = "sid-1"

\* C20: Token and BaseURL are updated atomically for concurrent readers:
\* however a reload_auth interleaves with a tool call in flight, the request
\* that call sends carries the base URL and the session token of one
\* profile, both from before the reload or both from after it.
C20_RequestUsesOneProfile ==
  (flight.pc = "done" /\ wire # <<>>) =>
    \E c \in RaceConfigs :
      /\ wire[1].base = CredentialsOf(c).BaseURL
      /\ "SID" \in DOMAIN wire[1].cookies
      /\ wire[1].cookies["SID"] = CredentialsOf(c).Token

\* C21: a tool call that fails local validation never reaches the backend:
\* for every tool of either server, a call that lacks a required parameter
\* or carries it with another type than string, and a get_package_assets
\* call whose asset_type is outside docs, icon, readme, releaseNotes, sbom,
\* is answered with an error and sends no HTTP request.
C21_InvalidCallsSendNothing ==
  (call.op \in ToolNames
     /\ \/ \E k \in RequiredKeys(call.op) : call.args[k].t # "string"
        \/ /\ call.op = "get_package_assets"
           /\ call.args["asset_type"].t = "string"
           /\ call.args["asset_type"].s \notin validAssetTypes) =>
    /\ wire = <<>>
    /\ ~result.called
    /\ result.reply.kind = "error"

C26_SessionCookieOnly ==
  \A i \in 1..Len(wire) :
    /\ wire[i].authorization = ""
    /\ wire[i].base = BaseURL =>
         IF Token # "" THEN /\ DOMAIN wire[i].cookies = {"SID"}
                            /\ wire[i].cookies["SID"] = Token
         ELSE DOMAIN wire[i].cookies = {}

\* A server started on a profile without session that names a domain
\* sends its request without any credential.
C26_Witness ==
  /\ call.op = "get_package_version_resources" /\ result.called
  /\ Token = "" /\ BaseURL # <<>>
  /\ Len(wire) = 1 /\ wire[1].base = BaseURL
  /\ DOMAIN wire[1].cookies = {}

\* C27: a new client has an empty BaseURL, an empty Token and an HTTP
\* client; after any sequence of SetToken and SetBaseURL calls Token is the
\* argument of the last SetToken, or empty if there was none, and BaseURL
\* the argument of the last SetBaseURL, or empty if there was none, so each
\* setter leaves the other field as it was.
C27_LastSetterWins ==
  /\ NewClient.BaseURL = <<>> /\ NewClient.Token = "" /\ NewClient.HTTPClient # <<>>
  /\ call.op \in {"NewClient", "SetToken", "SetBaseURL"} =>
       /\ Token = IF call.tokens = <<>> THEN ""
                  ELSE call.tokens[Len(call.tokens)]
       /\ BaseURL = IF call.urls = <<>> THEN <<>>
                    ELSE call.urls[Len(call.urls)]

C27_Witness ==
  /\ call.op = "SetToken"
  /\ call.tokens = <<SessionToken, OtherToken>> /\ call.urls = <<ExampleURL>>
  /\ Token = OtherToken /\ BaseURL = ExampleURL

\* C28: reload_auth is all-or-nothing on the credential pair: after a
\* reload_auth call of either server, either Token and BaseURL both hold the
\* values of the current profile and the result reports success, or both
\* are as they were before the call and the result is an error; never is
\* only one of the two fields updated.
C28_ReloadAllOrNothing ==
  call.op = "reload_auth" =>
    LET tok == GetCurrentToken(configPath, files)
        url == GetCurrentServerURL(configPath, files)
    IN \/ /\ tok.err = "" /\ url.err = ""
          /\ Token = tok.token[1].AccessToken
          /\ BaseURL = url.url
          /\ result.reply.kind = "text"
       \/ /\ Token = call.before.Token
          /\ BaseURL = call.before.BaseURL
          /\ result.reply.kind # "text"

\* The request of the line just handled, where it was one.
IsRequestLine == call.op = "handleRequest" /\ call.line.kind = "request"
NamesUnknownTool ==
  /\ IsRequestLine
  /\ call.line.method = "tools/call"
  /\ ~UnmarshalFails(call.line.params)
  /\ call.line.params.name \notin StdioToolNames \cup {"reload_auth"}
NamesUnknownMethod == IsRequestLine /\ call.line.method \notin Methods
NothingRun == call.handler = "" /\ ~result.called /\ wire = <<>>

C24_ErrorCodes ==
  call.op = "sendError" /\ call.id # <<>> =>
    LET c == result.reply.code
    IN /\ c < 0
       /\ call.code \in KnownErrorNames =>
            /\ c \in {-32700} \cup (-32603..-32600) \cup (-32007..-32000)
            /\ \A other \in KnownErrorNames \ {call.code} : getErrorCode(other) # c
       /\ call.code \notin KnownErrorNames => c = -32603

C24_Witness ==
  /\ call.op = "sendError"
  /\ call.id # <<>>
  /\ call.code = "unknown_resource"
  /\ result.reply.code = -32007

\* The line just handled failed: it was no JSON request, named an unknown
\* method or tool, carried params that cannot be decoded, or its backend
\* call failed.
LineFailed ==
  /\ call.op = "handleRequest"
  /\ \/ call.line.kind = "malformed"
     \/ NamesUnknownMethod
     \/ NamesUnknownTool
     \/ /\ IsRequestLine
        /\ call.line.method \in {"tools/call", "resources/read"}
        /\ UnmarshalFails(call.line.params)
     \/ IsRequestLine /\ result.called /\ result.out.err # NoErr

\* C23: in the line-oriented server every non-empty request line that
\* fails (malformed JSON, unknown method, invalid params, unknown tool,
\* failed backend call) is answered, before the next line is read, by
\* exactly one structured error response with a numeric code and a message.
C23_EveryFailureAnswered ==
  LineFailed =>
    /\ result.reply.kind = "error"
    /\ result.reply.code < 0
    /\ result.reply.text # ""

\* C29: Server.Start handles the request lines one at a time in the order
\* of their arrival, returns nil when the input has ended and the context
\* error after a cancellation, is not stopped by an error of handling a
\* request, and always returns once its input has ended or its context
\* was cancelled.
C29_LoopTerminates ==
  /\ [](call.last = call.served)
  /\ [](call.pc = "returned" =>
          \/ call.ret = "nil" /\ ~call.open /\ call.stdin = <<>>
          \/ call.ret = "context canceled" /\ call.ctx = "cancelled")
  /\ [][call.pc = "read" /\ call'.served = call.served + 1
          => call'.pc = "select"]_vars
  /\ (call.ctx = "cancelled" \/ ~call.open) ~> (call.pc = "returned")

\* The calls of Forward that are between Lock and Unlock.
InForward == { c \in Callers : call.pc[c] \in {"locked", "written"} }

\* C30: under any interleaving of concurrent Forward calls every call gets
\* a request id that is unique and greater than all earlier ones, the
\* write and the read of one call are not interleaved with those of
\* another, the bytes a call returns are exactly the complete response of
\* the subprocess to the request it wrote, whatever the length of the
\* response, and every call returns in the end.
C30_ForwardPairsResponses ==
  /\ [](\A i, j \in 1..Len(call.issued) : i < j => call.issued[i] < call.issued[j])
  /\ [](Cardinality(InForward) <= 1)
  /\ [](\A c \in Callers :
          call.pc[c] = "returned" =>
            /\ Len(call.got[c]) = call.got[c][1].n
            /\ \A k \in 1..Len(call.got[c]) :
                 call.got[c][k].id = call.id[c] /\ call.got[c][k].k = k)
  /\ \A c \in Callers : (call.pc[c] = "locked") ~> (call.pc[c] = "returned")

====
